---- MODULE Spec2Model ----
(***************************************************************************)
(* A model of the synapse session/execution engine: the session Context   *)
(* (synapse-engine/src/engine/context.rs), the remote client               *)
(* (synapse-server/src/client.rs), the Flight-SQL adapter                  *)
(* (synapse-server/src/server/flight.rs) and the shape operations of the   *)
(* tensor library (synapse-tensor/src/ops/shape.rs).                       *)
(*                                                                         *)
(* The module holds several state machines over one set of variables; each   *)
(* specification moves the variables of one subsystem and leaves the rest *)
(* at their initial value:                                                 *)
(*   SpecTickets   concurrent DoGet handlers over the ticket tracker       *)
(*   SpecFlightInfo GetFlightInfo(Statement) for every statement           *)
(*   SpecContext   use_catalog / use_schema on a Context                   *)
(*   SpecSession   the same, and use_catalog / use_schema on a client      *)
(*   SpecDDL       create_catalog / create_schema / create_table           *)
(*   SpecShutdown  shutdown() on a Context and its clones                  *)
(*   SpecParents   creators with and without their parent namespaces       *)
(*   SpecFlags     creators under every combination of flags               *)
(*   SpecRace      concurrent create_table calls and table() lookups       *)
(*   SpecPut       DoPut(StatementUpdate) and the topic publisher          *)
(*   SpecVerbs     the unsupported verbs of the Flight service             *)
(*   SpecMeta      the metadata GetFlightInfo verbs                        *)
(*   SpecSnapshot  DoGet(GetTables / GetDbSchemas) with concurrent creators *)
(*   SpecGetTables DoGet(GetTables) between creators                       *)
(*   SpecSqlInfo   DoGet(GetSqlInfo)                                       *)
(*   SpecConfig    set_config / get_config under both scopes               *)
(*   SpecQuery     query() of the client                                   *)
(*   SpecPrepared  CreatePreparedStatement and the statement table         *)
(*   SpecTensor    Tensor::invert_axis / swap_axes                         *)
(*   SpecClones    use_catalog / use_schema on two clones of a client      *)
(***************************************************************************)
EXTENDS Integers, Sequences, FiniteSets, TLC

(***************************************************************************)
(* Bounds of the model.                                                    *)
(***************************************************************************)
\* tickets 1..MaxTickets can be allocated by put_sql
MaxTickets == 2
\* an object of the registry is replaced at most MaxGen - 1 times
MaxGen == 2
\* number of clones of one SynapseContext that call shutdown()
NumClones == 4
\* the incoming stream of a DoPut carries at most MaxBatches batches
MaxBatches == 3
\* the prepared-statement table holds at most MaxStatements statements
MaxStatements == 2
\* the axes of a tensor have sizes 0..MaxDim
MaxDim == 3
\* the width of usize in the tensor model, in bits
UsizeBits == 8

(***************************************************************************)
(* Names and inputs.                                                       *)
(***************************************************************************)
NoName == ""
CatNames == {"synapse", "c"}
SchNames == {"public", "s"}
TblNames == {"t"}
\* Arrow schemas a TableInfo can carry
Infos == {1, 2}
\* DoGet threads of the Flight service, and client handles (clones of one
\* SynapseClient share one connection)
Threads == {1, 2}
Clients == {1, 2}
Clones == 1 .. NumClones

\* SynapseConfig::default(): the Config of a new session
DefaultConfig ==
    [default_catalog |-> "synapse", default_schema |-> "public", options |-> "default"]

VARIABLES
    \* ---- cluster registry (shared): 0 = absent, n > 0 = the n-th object
    \* installed under the key (the identity of the Arc in the registry)
    catalogs,      \* [CatNames -> Nat]
    schemas,       \* [CatNames \X SchNames -> Nat]
    tables,        \* [CatNames \X SchNames \X TblNames -> [arc, kind, info]]
    \* ---- Context session (context.rs)
    config,        \* the SynapseConfig of the Context's state
    ctxRes,        \* the last Context call and what it returned
    usedCatalog,   \* a use_catalog call has returned Ok on this Context
    \* ---- client connection (client.rs) and the server's session for it
    connConfig,    \* the Connection-scope Config held by the server
    clPc,          \* [Clients -> position in use_catalog / use_schema]
    clCall,        \* [Clients -> the call in progress and the Config it read]
    lastSet,       \* the last call that set a default, and whether it existed
    \* ---- Flight service (flight.rs)
    tracker,       \* [1 .. MaxTickets -> task or NoTask]: TicketTracker
    nextTicket,    \* the next ticket put_sql allocates
    infoSchema,    \* [ticket -> schema sent in its FlightInfo, 0 if none]
    takes,         \* [ticket -> number of take() calls that returned Some]
    lastInfo,      \* the last GetFlightInfo(Statement) response
    dgPc,          \* [Threads -> position of the DoGet handler]
    dgTask,        \* [Threads -> the task taken, while its stream is awaited]
    dgRes,         \* [Threads -> the last DoGet response]
    \* ---- engine slot (context.rs)
    slot,          \* Arc<Mutex<Option<Engine>>>: TRUE = Some(engine)
    lockHolder,    \* 0 = unlocked, else the clone holding the guard
    sdPc,          \* [Clones -> position in shutdown()]
    sdRes,         \* [Clones -> what shutdown() returned]
    teardowns,     \* number of Engine::shutdown invocations
    sdLate,        \* [Clones -> the call began after another call had returned]
    \* ---- concurrent create_table calls and lookups on Context clones
    ddlPc,         \* [Threads -> position in create_table]
    ddlCall,       \* [Threads -> the create_table call in progress]
    ddlRes,        \* [Threads -> what the last create_table call returned]
    lkRes,         \* [Threads -> what the last table() lookup returned]
    installed,     \* the table objects that have been installed in the registry
    \* ---- DoPut(StatementUpdate) handler (flight.rs) and the topic publisher
    dpPc,          \* position of the handler
    dpStmt,        \* the statement of the call
    dpIn,          \* the incoming stream: what is still to arrive
    dpRows,        \* the handler's `rows`
    dpHeld,        \* the batch pulled and not yet accepted by send
    dpLog,         \* the publisher: the batches send has accepted, in order
    dpFlushed,     \* number of batches of dpLog that flush has committed
    dpRes,         \* what the call returned
    \* ---- prepared statements and metadata verbs (flight.rs)
    statements,    \* PreparedStatements: [handle -> the statement stored, or NoName]
    lastMeta,      \* the last metadata GetFlightInfo request and response
    lastVerb,      \* the last unsupported verb called and its status
    \* ---- DoGet(GetTables) / DoGet(GetDbSchemas) handler (flight.rs)
    gtPc,          \* position of the handler in its loops
    gtCats,        \* catalog names still to visit
    gtCat,         \* the catalog being visited
    gtSchs,        \* schema names of gtCat still to visit
    gtSch,         \* the schema being visited
    gtTbls,        \* table names of gtSch still to visit
    gtRows,        \* the rows appended to the builder, and the response
    gtStart,       \* the schemas and tables of the cluster when the call began
    treeLog,       \* the schemas and tables created during the call, in order
    \* ---- Config scopes of the engine service
    clusterConfig, \* the cluster-wide default Config
    peerConfig,    \* the session Config of another connection
    lastGet,       \* the last get_config call of the client and its result
    lastSent,      \* [scope -> the Config last set on the scope, by whom]
    \* ---- responses
    lastPrep,      \* the last CreatePreparedStatement call and its result
    lastSqlInfo,   \* the last DoGet(GetSqlInfo) request and its rows
    lastQuery,     \* the last client query(): the FlightInfo and the result
    \* ---- tensor (synapse-tensor/src/ops/shape.rs)
    tn,            \* a tensor: data offset, shape and strides
    tnPrev,        \* the tensor invert_axis was called on
    tnAx           \* the axis it was called with (-1: not called)

clusterVars == <<catalogs, schemas, tables>>
ctxVars == <<config, ctxRes, usedCatalog>>
clientVars == <<connConfig, clPc, clCall>>
flightVars == <<tracker, nextTicket, infoSchema, takes, lastInfo, dgPc, dgTask, dgRes>>
engineVars == <<slot, lockHolder, sdPc, sdRes, teardowns, sdLate>>
ddlVars == <<ddlPc, ddlCall, ddlRes, lkRes, installed>>
putVars == <<dpPc, dpStmt, dpIn, dpRows, dpHeld, dpLog, dpFlushed, dpRes>>
metaVars == <<statements, lastMeta, lastVerb>>
snapVars == <<gtPc, gtCats, gtCat, gtSchs, gtSch, gtTbls, gtRows, gtStart, treeLog>>
configVars == <<clusterConfig, peerConfig, lastGet, lastSent>>
respVars == <<lastPrep, lastSqlInfo, lastQuery>>
tensorVars == <<tn, tnPrev, tnAx>>
vars == <<clusterVars, ctxVars, clientVars, lastSet, flightVars, engineVars,
          ddlVars, putVars, metaVars, snapVars, configVars, respVars, tensorVars>>

(***************************************************************************)
(* Cluster registry.  SynapseState / SynapseCluster are not part of the    *)
(* sources at hand; the registry operations follow section 4.2 of the      *)
(* specification.                                                          *)
(***************************************************************************)
NoTable == [arc |-> 0, kind |-> "none", info |-> 0]

\* SynapseCluster::catalog(id) -> Option<Arc<SynapseCatalog>>
catalog(c) == IF c \in CatNames THEN catalogs[c] ELSE 0

\* SynapseCatalog::schema(id) -> Option<Arc<SynapseSchema>>
schema(c, s) == IF c \in CatNames /\ s \in SchNames THEN schemas[<<c, s>>] ELSE 0

\* SynapseState::table(resolved) -> Option<Arc<SynapseTable>>
table(c, s, t) ==
    IF c \in CatNames /\ s \in SchNames /\ t \in TblNames
    THEN tables[<<c, s, t>>] ELSE NoTable

\* SynapseState::resolve: fills the missing parts of a reference from the
\* session defaults
resolve(ref) ==
    [catalog |-> IF ref.catalog = NoName THEN config.default_catalog ELSE ref.catalog,
     schema  |-> IF ref.schema = NoName THEN config.default_schema ELSE ref.schema,
     table   |-> ref.table]

\* SynapseState::create_catalog(id, if_not_exists): the value returned and
\* the catalog map afterwards
state_create_catalog(c, ine) ==
    IF catalog(c) # 0
    THEN IF ine
         THEN [status |-> "Ok", obj |-> catalog(c), catalogs |-> catalogs]
         ELSE [status |-> "AlreadyExists", obj |-> 0, catalogs |-> catalogs]
    ELSE [status |-> "Ok", obj |-> 1, catalogs |-> [catalogs EXCEPT ![c] = 1]]

\* SynapseState::create_schema(schema_ref, if_not_exists): a missing catalog
\* part is the session's default catalog
state_create_schema(ref, ine) ==
    LET c == IF ref.catalog = NoName THEN config.default_catalog ELSE ref.catalog
        s == ref.schema
    IN  IF catalog(c) = 0
        THEN [status |-> "CatalogNotFound", obj |-> 0, schemas |-> schemas]
        ELSE IF schema(c, s) # 0
        THEN IF ine
             THEN [status |-> "Ok", obj |-> schema(c, s), schemas |-> schemas]
             ELSE [status |-> "AlreadyExists", obj |-> 0, schemas |-> schemas]
        ELSE [status |-> "Ok", obj |-> 1,
              schemas |-> [schemas EXCEPT ![<<c, s>>] = 1]]

\* SynapseState::create_table(resolved, info, if_not_exists, or_replace)
state_create_table(r, info, ine, orr) ==
    LET key == <<r.catalog, r.schema, r.table>>
        old == table(r.catalog, r.schema, r.table)
        new == [arc |-> old.arc + 1, kind |-> "table", info |-> info]
    IN  IF ine /\ orr
        THEN [status |-> "ConfigError", obj |-> 0, tables |-> tables]
        ELSE IF catalog(r.catalog) = 0
        THEN [status |-> "CatalogNotFound", obj |-> 0, tables |-> tables]
        ELSE IF schema(r.catalog, r.schema) = 0
        THEN [status |-> "SchemaNotFound", obj |-> 0, tables |-> tables]
        ELSE IF old.arc # 0 /\ ine
        THEN [status |-> "Ok", obj |-> old.arc, tables |-> tables]
        ELSE IF old.arc # 0 /\ ~orr
        THEN [status |-> "AlreadyExists", obj |-> 0, tables |-> tables]
        ELSE [status |-> "Ok", obj |-> new.arc,
              tables |-> [tables EXCEPT ![key] = new]]

\* SynapseState::create_topic / create_view(resolved, info, if_not_exists,
\* or_replace): as create_table, the object installed being of that kind
state_create_object(kind, r, info, ine, orr) ==
    LET key == <<r.catalog, r.schema, r.table>>
        old == table(r.catalog, r.schema, r.table)
        new == [arc |-> old.arc + 1, kind |-> kind, info |-> info]
    IN  IF ine /\ orr
        THEN [status |-> "ConfigError", obj |-> 0, tables |-> tables]
        ELSE IF catalog(r.catalog) = 0
        THEN [status |-> "CatalogNotFound", obj |-> 0, tables |-> tables]
        ELSE IF schema(r.catalog, r.schema) = 0
        THEN [status |-> "SchemaNotFound", obj |-> 0, tables |-> tables]
        ELSE IF old.arc # 0 /\ ine
        THEN [status |-> "Ok", obj |-> old.arc, tables |-> tables]
        ELSE IF old.arc # 0 /\ ~orr
        THEN [status |-> "AlreadyExists", obj |-> 0, tables |-> tables]
        ELSE [status |-> "Ok", obj |-> new.arc,
              tables |-> [tables EXCEPT ![key] = new]]

state_create_topic(r, info, ine, orr) == state_create_object("topic", r, info, ine, orr)

state_create_view(r, info, ine, orr) == state_create_object("view", r, info, ine, orr)

(***************************************************************************)
(* Context (context.rs).                                                   *)
(***************************************************************************)
\* SynapseContext::default_catalog / default_schema
default_catalog == config.default_catalog
default_schema == config.default_schema

\* what a Context call leaves in ctxRes: the call, its result, and what the
\* call found (the object under the key, the parent catalog and schema) and
\* changed
CtxResult(op, c, s, t, ine, orr, status, obj, prior, changed) ==
    [op |-> op, cat |-> c, sch |-> s, tbl |-> t, ine |-> ine, orr |-> orr,
     status |-> status, obj |-> obj, prior |-> prior, changed |-> changed,
     before |-> config, hadCat |-> catalog(c) # 0, hadSch |-> schema(c, s) # 0]

NoResult == [op |-> "none", cat |-> NoName, sch |-> NoName, tbl |-> NoName,
             ine |-> FALSE, orr |-> FALSE, status |-> "none", obj |-> 0,
             prior |-> 0, changed |-> FALSE,
             before |-> [default_catalog |-> NoName, default_schema |-> NoName,
                         options |-> "none"],
             hadCat |-> FALSE, hadSch |-> FALSE]

\* the record a call that sets a session default leaves in lastSet: who set
\* what, and whether the name existed in the cluster when the call ran
SetRecord(by, kind, name, existed) ==
    [by |-> by, kind |-> kind, name |-> name, existed |-> existed]

\* use_catalog without the lookup of the catalog in the cluster
use_catalog_unchecked(c) ==
    /\ config' = [config EXCEPT !.default_catalog = c]
    /\ ctxRes' = CtxResult("use_catalog", c, NoName, NoName, FALSE, FALSE,
                           "Ok", 0, catalog(c), FALSE)
    /\ usedCatalog' = TRUE
    /\ lastSet' = SetRecord("context", "catalog", c, catalog(c) # 0)
    /\ UNCHANGED <<clusterVars, clientVars, flightVars, engineVars,
                   ddlVars, putVars, metaVars,
                   snapVars, configVars, respVars, tensorVars>>

\* a use_catalog that also puts the default schema back to the initial one
use_catalog_resets_schema(c) ==
    /\ IF catalog(c) = 0
       THEN /\ ctxRes' = CtxResult("use_catalog", c, NoName, NoName, FALSE, FALSE,
                                   "CatalogNotFound", 0, catalog(c), FALSE)
            /\ UNCHANGED <<config, usedCatalog, lastSet>>
       ELSE /\ config' = [config EXCEPT !.default_catalog = c,
                                        !.default_schema = DefaultConfig.default_schema]
            /\ ctxRes' = CtxResult("use_catalog", c, NoName, NoName, FALSE, FALSE,
                                   "Ok", 0, catalog(c), FALSE)
            /\ usedCatalog' = TRUE
            /\ lastSet' = SetRecord("context", "catalog", c, catalog(c) # 0)
    /\ UNCHANGED <<clusterVars, clientVars, flightVars, engineVars,
                   ddlVars, putVars, metaVars,
                   snapVars, configVars, respVars, tensorVars>>

\* SynapseContext::use_catalog
use_catalog(c) ==
    /\ IF catalog(c) = 0
       THEN /\ ctxRes' = CtxResult("use_catalog", c, NoName, NoName, FALSE, FALSE,
                                   "CatalogNotFound", 0, catalog(c), FALSE)
            /\ UNCHANGED <<config, usedCatalog, lastSet>>
       ELSE /\ config' = [config EXCEPT !.default_catalog = c]
            /\ ctxRes' = CtxResult("use_catalog", c, NoName, NoName, FALSE, FALSE,
                                   "Ok", 0, catalog(c), FALSE)
            /\ usedCatalog' = TRUE
            /\ lastSet' = SetRecord("context", "catalog", c, catalog(c) # 0)
    /\ UNCHANGED <<clusterVars, clientVars, flightVars, engineVars,
                   ddlVars, putVars, metaVars,
                   snapVars, configVars, respVars, tensorVars>>

\* use_schema looking the schema up in the catalog of the initial Config
\* instead of the session's current default catalog
use_schema_initial_catalog(s) ==
    /\ IF schema(DefaultConfig.default_catalog, s) = 0
       THEN /\ ctxRes' = CtxResult("use_schema", default_catalog, s, NoName, FALSE,
                                   FALSE, "SchemaNotFound", 0,
                                   schema(default_catalog, s), FALSE)
            /\ UNCHANGED <<config, lastSet>>
       ELSE /\ config' = [config EXCEPT !.default_schema = s]
            /\ ctxRes' = CtxResult("use_schema", default_catalog, s, NoName, FALSE,
                                   FALSE, "Ok", 0, schema(default_catalog, s), FALSE)
            /\ lastSet' = SetRecord("context", "schema", s,
                                    schema(default_catalog, s) # 0)
    /\ UNCHANGED <<usedCatalog, clusterVars, clientVars, flightVars, engineVars,
                   ddlVars, putVars, metaVars,
                   snapVars, configVars, respVars, tensorVars>>

\* SynapseContext::use_schema
use_schema(s) ==
    /\ IF catalog(default_catalog) = 0
       THEN /\ ctxRes' = CtxResult("use_schema", default_catalog, s, NoName, FALSE,
                                   FALSE, "CatalogNotFound", 0,
                                   schema(default_catalog, s), FALSE)
            /\ UNCHANGED <<config, lastSet>>
       ELSE IF schema(default_catalog, s) = 0
       THEN /\ ctxRes' = CtxResult("use_schema", default_catalog, s, NoName, FALSE,
                                   FALSE, "SchemaNotFound", 0,
                                   schema(default_catalog, s), FALSE)
            /\ UNCHANGED <<config, lastSet>>
       ELSE /\ config' = [config EXCEPT !.default_schema = s]
            /\ ctxRes' = CtxResult("use_schema", default_catalog, s, NoName, FALSE,
                                   FALSE, "Ok", 0, schema(default_catalog, s), FALSE)
            /\ lastSet' = SetRecord("context", "schema", s,
                                    schema(default_catalog, s) # 0)
    /\ UNCHANGED <<usedCatalog, clusterVars, clientVars, flightVars, engineVars,
                   ddlVars, putVars, metaVars,
                   snapVars, configVars, respVars, tensorVars>>

\* create_schema that creates the parent catalog when it is missing
create_schema_make_catalog(ref, ine) ==
    LET c == IF ref.catalog = NoName THEN config.default_catalog ELSE ref.catalog
        made == [catalogs EXCEPT ![c] = IF @ = 0 THEN 1 ELSE @]
    IN  /\ catalogs' = made
        /\ schemas' = IF schema(c, ref.schema) = 0
                      THEN [schemas EXCEPT ![<<c, ref.schema>>] = 1] ELSE schemas
        /\ ctxRes' = CtxResult("create_schema", c, ref.schema, NoName, ine, FALSE,
                               IF schema(c, ref.schema) = 0 \/ ine
                               THEN "Ok" ELSE "AlreadyExists",
                               IF schema(c, ref.schema) = 0 \/ ine THEN 1 ELSE 0,
                               schema(c, ref.schema),
                               schema(c, ref.schema) = 0)
        /\ UNCHANGED <<tables, config, usedCatalog, clientVars,
                       lastSet, flightVars, engineVars,
                       ddlVars, putVars, metaVars,
                   snapVars, configVars, respVars, tensorVars>>

\* create_table that asks the state to replace whatever the flags say
create_table_force_replace(ref, info, ine, orr) ==
    LET res == resolve(ref)
        r == state_create_table(res, info, FALSE, TRUE)
    IN  /\ tables' = r.tables
        /\ ctxRes' = CtxResult("create_table", res.catalog, res.schema, res.table,
                               ine, orr, r.status, r.obj,
                               table(res.catalog, res.schema, res.table).arc,
                               r.tables # tables)
        /\ UNCHANGED <<catalogs, schemas, config, usedCatalog, clientVars,
                       lastSet, flightVars, engineVars,
                       ddlVars, putVars, metaVars,
                   snapVars, configVars, respVars, tensorVars>>

\* create_catalog that does not pass if_not_exists on to the state
create_catalog_drop_flag(c, ine) ==
    LET r == state_create_catalog(c, FALSE)
    IN  /\ catalogs' = r.catalogs
        /\ ctxRes' = CtxResult("create_catalog", c, NoName, NoName, ine, FALSE,
                               r.status, r.obj, catalog(c), r.catalogs # catalogs)
        /\ UNCHANGED <<schemas, tables, config, usedCatalog, clientVars,
                       lastSet, flightVars, engineVars,
                   ddlVars, putVars, metaVars,
                   snapVars, configVars, respVars, tensorVars>>

\* SynapseContext::create_catalog
create_catalog(c, ine) ==
    LET r == state_create_catalog(c, ine)
    IN  /\ catalogs' = r.catalogs
        /\ ctxRes' = CtxResult("create_catalog", c, NoName, NoName, ine, FALSE,
                               r.status, r.obj, catalog(c), r.catalogs # catalogs)
        /\ UNCHANGED <<schemas, tables, config, usedCatalog, clientVars,
                       lastSet, flightVars, engineVars,
                   ddlVars, putVars, metaVars,
                   snapVars, configVars, respVars, tensorVars>>

\* SynapseContext::create_schema
create_schema(ref, ine) ==
    LET r == state_create_schema(ref, ine)
        c == IF ref.catalog = NoName THEN config.default_catalog ELSE ref.catalog
    IN  /\ schemas' = r.schemas
        /\ ctxRes' = CtxResult("create_schema", c, ref.schema, NoName, ine, FALSE,
                               r.status, r.obj, schema(c, ref.schema),
                               r.schemas # schemas)
        /\ UNCHANGED <<catalogs, tables, config, usedCatalog, clientVars,
                       lastSet, flightVars, engineVars,
                   ddlVars, putVars, metaVars,
                   snapVars, configVars, respVars, tensorVars>>

\* SynapseContext::create_table
create_table(ref, info, ine, orr) ==
    LET res == resolve(ref)
        r == state_create_table(res, info, ine, orr)
    IN  /\ tables' = r.tables
        /\ ctxRes' = CtxResult("create_table", res.catalog, res.schema, res.table,
                               ine, orr, r.status, r.obj,
                               table(res.catalog, res.schema, res.table).arc,
                               r.tables # tables)
        /\ UNCHANGED <<catalogs, schemas, config, usedCatalog, clientVars,
                       lastSet, flightVars, engineVars,
                   ddlVars, putVars, metaVars,
                   snapVars, configVars, respVars, tensorVars>>

\* create_topic that lets or_replace win when both flags are given
create_topic_replace_wins(ref, info, ine, orr) ==
    LET res == resolve(ref)
        r == state_create_topic(res, info, ine /\ ~orr, orr)
    IN  /\ tables' = r.tables
        /\ ctxRes' = CtxResult("create_topic", res.catalog, res.schema, res.table,
                               ine, orr, r.status, r.obj,
                               table(res.catalog, res.schema, res.table).arc,
                               r.tables # tables)
        /\ UNCHANGED <<catalogs, schemas, config, usedCatalog, clientVars,
                       lastSet, flightVars, engineVars,
                       ddlVars, putVars, metaVars,
                   snapVars, configVars, respVars, tensorVars>>

\* SynapseContext::create_topic
create_topic(ref, info, ine, orr) ==
    LET res == resolve(ref)
        r == state_create_topic(res, info, ine, orr)
    IN  /\ tables' = r.tables
        /\ ctxRes' = CtxResult("create_topic", res.catalog, res.schema, res.table,
                               ine, orr, r.status, r.obj,
                               table(res.catalog, res.schema, res.table).arc,
                               r.tables # tables)
        /\ UNCHANGED <<catalogs, schemas, config, usedCatalog, clientVars,
                       lastSet, flightVars, engineVars,
                       ddlVars, putVars, metaVars,
                   snapVars, configVars, respVars, tensorVars>>

\* SynapseContext::create_view
create_view(ref, info, ine, orr) ==
    LET res == resolve(ref)
        r == state_create_view(res, info, ine, orr)
    IN  /\ tables' = r.tables
        /\ ctxRes' = CtxResult("create_view", res.catalog, res.schema, res.table,
                               ine, orr, r.status, r.obj,
                               table(res.catalog, res.schema, res.table).arc,
                               r.tables # tables)
        /\ UNCHANGED <<catalogs, schemas, config, usedCatalog, clientVars,
                       lastSet, flightVars, engineVars,
                       ddlVars, putVars, metaVars,
                   snapVars, configVars, respVars, tensorVars>>

(***************************************************************************)
(* Concurrent create_table calls and table() lookups on clones of one      *)
(* Context.  A create_table call resolves its reference when it is made    *)
(* and then awaits SynapseState::create_table, which runs as one step      *)
(* under the lock of the parent schema (sections 4.2 and 5).               *)
(***************************************************************************)
\* SynapseContext::table
context_table(ref) ==
    table(resolve(ref).catalog, resolve(ref).schema, resolve(ref).table)

\* a create_table call of a thread: the resolved reference and the arguments,
\* what the key held when the call was made (seen) and when the call got the
\* lock (prior), whether the parents existed, whether a call of the other
\* thread was in progress at some time during this call (rival), and the
\* result
NoDdl == [res |-> [catalog |-> NoName, schema |-> NoName, table |-> NoName],
          info |-> 0, ine |-> FALSE, orr |-> FALSE, seen |-> 0, prior |-> 0,
          parents |-> FALSE, rival |-> FALSE, status |-> "none", obj |-> 0]

NoLookup == [obj |-> NoTable, known |-> FALSE, latest |-> 0]

\* the newest table object installed so far (0: none)
latest_installed ==
    IF installed = {} THEN 0
    ELSE (CHOOSE o \in installed : \A q \in installed : q.arc <= o.arc).arc

\* SynapseContext::create_table on thread th, up to the await: the reference
\* is resolved against the session defaults and the call is in progress
create_table_call(th, ref, info, ine, orr) ==
    LET res == resolve(ref)
        others == {o \in Threads \ {th} : ddlPc[o] = "lock"}
    IN  /\ ddlPc[th] = "idle"
        /\ ddlPc' = [ddlPc EXCEPT ![th] = "lock"]
        /\ ddlCall' = [o \in Threads |->
             IF o = th
             THEN [NoDdl EXCEPT !.res = res, !.info = info, !.ine = ine, !.orr = orr,
                                !.seen = table(res.catalog, res.schema, res.table).arc,
                                !.parents = schema(res.catalog, res.schema) # 0,
                                !.rival = others # {},
                                !.status = "pending"]
             ELSE IF o \in others THEN [ddlCall[o] EXCEPT !.rival = TRUE]
             ELSE ddlCall[o]]
        /\ ddlRes' = [ddlRes EXCEPT ![th] = NoDdl]
        /\ UNCHANGED <<lkRes, installed>>
        /\ UNCHANGED <<clusterVars, ctxVars, clientVars, lastSet, flightVars,
                       engineVars, putVars, metaVars,
                   snapVars, configVars, respVars, tensorVars>>

\* create_table whose replacement takes the old object out of the schema and
\* does not put the new one in its place in the same step
create_table_commit_remove_old(th) ==
    LET c == ddlCall[th]
        r == state_create_table(c.res, c.info, c.ine, c.orr)
        key == <<c.res.catalog, c.res.schema, c.res.table>>
        old == table(c.res.catalog, c.res.schema, c.res.table)
    IN  /\ ddlPc[th] = "lock"
        /\ ddlPc' = [ddlPc EXCEPT ![th] = "idle"]
        /\ tables' = IF r.tables # tables /\ old.arc # 0
                     THEN [tables EXCEPT ![key] = NoTable] ELSE r.tables
        /\ installed' = IF r.tables # tables
                        THEN installed \cup {r.tables[key]} ELSE installed
        /\ ddlRes' = [ddlRes EXCEPT ![th] =
                        [c EXCEPT !.status = r.status, !.obj = r.obj, !.prior = old.arc]]
        /\ ddlCall' = [ddlCall EXCEPT ![th] = NoDdl]
        /\ UNCHANGED <<catalogs, schemas, lkRes>>
        /\ UNCHANGED <<ctxVars, clientVars, lastSet, flightVars, engineVars,
                       putVars, metaVars,
                   snapVars, configVars, respVars, tensorVars>>

\* create_table deciding on what the key held when the call was made, not
\* on what it holds when the call runs on the registry
create_table_commit_stale(th) ==
    LET c == ddlCall[th]
        key == <<c.res.catalog, c.res.schema, c.res.table>>
        old == table(c.res.catalog, c.res.schema, c.res.table)
        new == [arc |-> old.arc + 1, kind |-> "table", info |-> c.info]
        r == IF c.seen = 0 /\ c.parents /\ ~(c.ine /\ c.orr)
             THEN [status |-> "Ok", obj |-> new.arc,
                   tables |-> [tables EXCEPT ![key] = new]]
             ELSE state_create_table(c.res, c.info, c.ine, c.orr)
    IN  /\ ddlPc[th] = "lock"
        /\ ddlPc' = [ddlPc EXCEPT ![th] = "idle"]
        /\ tables' = r.tables
        /\ installed' = IF r.tables # tables
                        THEN installed \cup {r.tables[key]} ELSE installed
        /\ ddlRes' = [ddlRes EXCEPT ![th] =
                        [c EXCEPT !.status = r.status, !.obj = r.obj, !.prior = old.arc]]
        /\ ddlCall' = [ddlCall EXCEPT ![th] = NoDdl]
        /\ UNCHANGED <<catalogs, schemas, lkRes>>
        /\ UNCHANGED <<ctxVars, clientVars, lastSet, flightVars, engineVars,
                       putVars, metaVars,
                   snapVars, configVars, respVars, tensorVars>>

\* SynapseContext::create_table on thread th, from the await on:
\* SynapseState::create_table runs on the registry as it is now and the call
\* returns its result
create_table_commit(th) ==
    LET c == ddlCall[th]
        r == state_create_table(c.res, c.info, c.ine, c.orr)
        key == <<c.res.catalog, c.res.schema, c.res.table>>
        old == table(c.res.catalog, c.res.schema, c.res.table)
    IN  /\ ddlPc[th] = "lock"
        /\ ddlPc' = [ddlPc EXCEPT ![th] = "idle"]
        /\ tables' = r.tables
        /\ installed' = IF r.tables # tables
                        THEN installed \cup {r.tables[key]} ELSE installed
        /\ ddlRes' = [ddlRes EXCEPT ![th] =
                        [c EXCEPT !.status = r.status, !.obj = r.obj, !.prior = old.arc]]
        /\ ddlCall' = [ddlCall EXCEPT ![th] = NoDdl]
        /\ UNCHANGED <<catalogs, schemas, lkRes>>
        /\ UNCHANGED <<ctxVars, clientVars, lastSet, flightVars, engineVars,
                       putVars, metaVars,
                   snapVars, configVars, respVars, tensorVars>>

\* SynapseContext::table on thread th: what the lookup returned, and (known,
\* latest) whether and which object had been installed under the key by then
table_lookup(th, ref) ==
    /\ lkRes' = [lkRes EXCEPT ![th] =
                    [obj |-> context_table(ref), known |-> installed # {},
                     latest |-> latest_installed]]
    /\ UNCHANGED <<ddlPc, ddlCall, ddlRes, installed>>
    /\ UNCHANGED <<clusterVars, ctxVars, clientVars, lastSet, flightVars,
                   engineVars, putVars, metaVars,
                   snapVars, configVars, respVars, tensorVars>>

(***************************************************************************)
(* Client (client.rs) and the engine service's SetConfig / GetConfig.  The *)
(* service handlers are not part of the sources at hand; they follow       *)
(* section 4.5 of the specification: the server deserializes the bytes as  *)
(* a Config and, for scope Connection, replaces the caller's session       *)
(* Config with it.                                                         *)
(***************************************************************************)
\* a serializer that writes the options member as "default" whatever the
\* Config holds
to_json_default_options(cfg) ==
    << <<"default_catalog", cfg.default_catalog>>,
       <<"default_schema", cfg.default_schema>>,
       <<"options", "default">> >>

\* serde_json::to_vec(config): the JSON object as its list of members
to_json(cfg) ==
    << <<"default_catalog", cfg.default_catalog>>,
       <<"default_schema", cfg.default_schema>>,
       <<"options", cfg.options>> >>

\* serde_json::from_slice(bytes): the member of each key
from_json(bytes) ==
    LET member(k) == (CHOOSE i \in 1 .. Len(bytes) : bytes[i][1] = k)
    IN  [default_catalog |-> bytes[member("default_catalog")][2],
         default_schema  |-> bytes[member("default_schema")][2],
         options         |-> bytes[member("options")][2]]

\* EngineService::get_config(scope = Connection): the session's Config as bytes
server_get_config == to_json(connConfig)

\* EngineService::set_config(scope = Connection, bytes): the Config the
\* session holds afterwards
server_set_config(bytes) == from_json(bytes)

\* SynapseClient::get_config(false): the Config the client decodes
get_config == from_json(server_get_config)

NoCall == [op |-> "none", arg |-> NoName, status |-> "none",
           cfg |-> [default_catalog |-> NoName, default_schema |-> NoName,
                    options |-> "none"]]

\* SynapseClient::set_config(&config, false), as the second half of
\* use_catalog / use_schema: rpcOk = FALSE is a transport failure
set_config(cl, rpcOk) ==
    /\ clPc[cl] = "built"
    /\ clPc' = [clPc EXCEPT ![cl] = "idle"]
    /\ IF rpcOk
       THEN /\ connConfig' = server_set_config(to_json(clCall[cl].cfg))
            /\ clCall' = [clCall EXCEPT ![cl].status = "Ok", ![cl].cfg = NoCall.cfg]
            /\ lastSet' =
                 IF clCall[cl].op = "use_catalog"
                 THEN SetRecord("client", "catalog", clCall[cl].arg,
                                catalog(clCall[cl].arg) # 0)
                 ELSE SetRecord("client", "schema", clCall[cl].arg,
                                schema(clCall[cl].cfg.default_catalog,
                                       clCall[cl].arg) # 0)
       ELSE /\ clCall' = [clCall EXCEPT ![cl].status = "ServerError",
                                        ![cl].cfg = NoCall.cfg]
            /\ UNCHANGED <<connConfig, lastSet>>
    /\ UNCHANGED <<clusterVars, ctxVars, flightVars, engineVars,
                   ddlVars, putVars, metaVars,
                   snapVars, configVars, respVars, tensorVars>>

\* SynapseClient::use_catalog, up to the Config it builds from get_config
client_use_catalog(cl, c, rpcOk) ==
    /\ clPc[cl] = "idle"
    /\ IF rpcOk
       THEN /\ clPc' = [clPc EXCEPT ![cl] = "built"]
            /\ clCall' = [clCall EXCEPT ![cl] =
                 [op |-> "use_catalog", arg |-> c, status |-> "pending",
                  cfg |-> [get_config EXCEPT !.default_catalog = c]]]
       ELSE /\ clCall' = [clCall EXCEPT ![cl] =
                 [op |-> "use_catalog", arg |-> c, status |-> "ServerError",
                  cfg |-> NoCall.cfg]]
            /\ UNCHANGED clPc
    /\ UNCHANGED <<connConfig, lastSet, clusterVars, ctxVars, flightVars, engineVars,
                   ddlVars, putVars, metaVars,
                   snapVars, configVars, respVars, tensorVars>>

\* SynapseClient::use_schema, up to the Config it builds from get_config
client_use_schema(cl, s, rpcOk) ==
    /\ clPc[cl] = "idle"
    /\ IF rpcOk
       THEN /\ clPc' = [clPc EXCEPT ![cl] = "built"]
            /\ clCall' = [clCall EXCEPT ![cl] =
                 [op |-> "use_schema", arg |-> s, status |-> "pending",
                  cfg |-> [get_config EXCEPT !.default_schema = s]]]
       ELSE /\ clCall' = [clCall EXCEPT ![cl] =
                 [op |-> "use_schema", arg |-> s, status |-> "ServerError",
                  cfg |-> NoCall.cfg]]
            /\ UNCHANGED clPc
    /\ UNCHANGED <<connConfig, lastSet, clusterVars, ctxVars, flightVars, engineVars,
                   ddlVars, putVars, metaVars,
                   snapVars, configVars, respVars, tensorVars>>

\* EngineService::create_table: the reference is resolved against the
\* session's Config and the DDL rules of section 4.2 apply
server_create_table(ref, info, ine, orr) ==
    state_create_table(
        [catalog |-> IF ref.catalog = NoName THEN connConfig.default_catalog
                     ELSE ref.catalog,
         schema  |-> IF ref.schema = NoName THEN connConfig.default_schema
                     ELSE ref.schema,
         table   |-> ref.table],
        info, ine, orr)

\* client create_table that sends the request without its if_not_exists flag
client_create_table_drop_flag(cl, ref, info, ine, orr, rpcOk) ==
    LET r == server_create_table(ref, info, FALSE, orr)
    IN  /\ clPc[cl] = "idle"
        /\ tables' = IF rpcOk THEN r.tables ELSE tables
        /\ clCall' = [clCall EXCEPT ![cl] =
             [op |-> "create_table", arg |-> ref.table,
              status |-> IF rpcOk /\ r.status = "Ok" THEN "Ok" ELSE "ServerError",
              cfg |-> NoCall.cfg, ine |-> ine, orr |-> orr,
              remote |-> IF rpcOk /\ r.status = "Ok" THEN r.obj ELSE 0,
              changed |-> rpcOk /\ r.tables # tables]]
        /\ UNCHANGED <<catalogs, schemas, connConfig, clPc, lastSet>>
        /\ UNCHANGED <<ctxVars, flightVars, engineVars, ddlVars, putVars, metaVars,
                   snapVars, configVars, respVars, tensorVars>>

\* SynapseClient::create_table: the request carries both flags as given; an
\* error status of the server, or a transport failure (rpcOk = FALSE), is
\* ClientError::Server; otherwise the call returns the RemoteTable echoed
client_create_table(cl, ref, info, ine, orr, rpcOk) ==
    LET r == server_create_table(ref, info, ine, orr)
    IN  /\ clPc[cl] = "idle"
        /\ tables' = IF rpcOk THEN r.tables ELSE tables
        /\ clCall' = [clCall EXCEPT ![cl] =
             [op |-> "create_table", arg |-> ref.table,
              status |-> IF rpcOk /\ r.status = "Ok" THEN "Ok" ELSE "ServerError",
              cfg |-> NoCall.cfg, ine |-> ine, orr |-> orr,
              remote |-> IF rpcOk /\ r.status = "Ok" THEN r.obj ELSE 0,
              changed |-> rpcOk /\ r.tables # tables]]
        /\ UNCHANGED <<catalogs, schemas, connConfig, clPc, lastSet>>
        /\ UNCHANGED <<ctxVars, flightVars, engineVars, ddlVars, putVars, metaVars,
                   snapVars, configVars, respVars, tensorVars>>

(***************************************************************************)
(* Flight-SQL adapter (flight.rs) over the ticket tracker.  TicketTracker  *)
(* is not part of the sources at hand; put_sql and take follow section 4.3 *)
(* of the specification.                                                   *)
(***************************************************************************)
Tickets == 1 .. MaxTickets
\* what a DoGet request can carry: 0 does not decode as a ticket, and
\* MaxTickets + 1 is a well-formed ticket that put_sql never allocates
Malformed == 0
Handles == 0 .. MaxTickets + 1

NoTask == [schema |-> 0, ordered |-> FALSE, num_rows |-> {}, byte_size |-> {}]

\* the statements a client submits; each reads the table QueryTable, and the
\* planner gives each its orderedness and its estimates (None is {})
Queries == {"q_none", "q_rows", "q_bytes", "q_both"}
QueryTable == [catalog |-> "synapse", schema |-> "public", table |-> "t"]
Plan(query) ==
    [ordered   |-> query \in {"q_rows", "q_both"},
     num_rows  |-> IF query \in {"q_rows", "q_both"}
                   THEN {IF query = "q_rows" THEN 0 ELSE 8} ELSE {},
     byte_size |-> IF query \in {"q_bytes", "q_both"} THEN {64} ELSE {}]

issued == 1 .. (nextTicket - 1)

\* TicketTracker::put_sql(query): plans the query (its schema is the schema
\* the table has now), allocates a fresh ticket and inserts (ticket -> task)
put_sql(query) ==
    LET tbl == table(QueryTable.catalog, QueryTable.schema, QueryTable.table)
        task == [schema |-> tbl.info, ordered |-> Plan(query).ordered,
                 num_rows |-> Plan(query).num_rows,
                 byte_size |-> Plan(query).byte_size]
    IN  IF tbl.arc = 0
        THEN [ok |-> FALSE, ticket |-> 0, task |-> NoTask, tracker |-> tracker]
        ELSE [ok |-> TRUE, ticket |-> nextTicket, task |-> task,
              tracker |-> [tracker EXCEPT ![nextTicket] = task]]

\* TicketTracker::take(ticket): removes and returns the task in one step
take(ticket) ==
    IF ticket \in Tickets /\ tracker[ticket] # NoTask
    THEN [some |-> TRUE, task |-> tracker[ticket],
          tracker |-> [tracker EXCEPT ![ticket] = NoTask]]
    ELSE [some |-> FALSE, task |-> NoTask, tracker |-> tracker]

\* `n as i64` of a row or byte estimate (estimates stay below 2^63, where
\* the cast keeps the value)
as_i64(n) == n

\* an Option<usize> estimate as the FlightInfo field: -1 is the field's
\* "unknown" value set by FlightInfo::new()
total_of(estimate) == IF estimate = {} THEN -1 ELSE as_i64(CHOOSE n \in estimate : TRUE)

NoInfo == [status |-> "none", schema |-> 0, endpoint |-> <<>>, ordered |-> FALSE,
           total_records |-> -1, total_bytes |-> -1, descriptor |-> ""]

\* sql_query that fills total_bytes from the row estimate
sql_query_bytes_from_rows(query, schemaOk) ==
    LET p == put_sql(query)
        ticket == [cmd |-> "TicketStatementQuery", statement_handle |-> p.ticket]
        endpoint == [ticket |-> ticket, location |-> <<>>]
    IN  IF ~p.ok
        THEN [info |-> [NoInfo EXCEPT !.status = "error"], ticket |-> 0,
              tracker |-> p.tracker]
        ELSE IF ~schemaOk
        THEN [info |-> [NoInfo EXCEPT !.status = "error"], ticket |-> p.ticket,
              tracker |-> p.tracker]
        ELSE [info |-> [status |-> "ok",
                        schema |-> p.task.schema,
                        endpoint |-> <<endpoint>>,
                        ordered |-> p.task.ordered,
                        total_records |-> total_of(p.task.num_rows),
                        total_bytes |-> total_of(p.task.num_rows),
                        descriptor |-> ""],
              ticket |-> p.ticket,
              tracker |-> p.tracker]

\* SynapseSqlService::sql_query: the FlightInfo (or the error) and the
\* tracker afterwards; schemaOk = FALSE is try_with_schema failing to
\* encode the schema
sql_query(query, schemaOk) ==
    LET p == put_sql(query)
        ticket == [cmd |-> "TicketStatementQuery", statement_handle |-> p.ticket]
        endpoint == [ticket |-> ticket, location |-> <<>>]
    IN  IF ~p.ok
        THEN [info |-> [NoInfo EXCEPT !.status = "error"], ticket |-> 0,
              tracker |-> p.tracker]
        ELSE IF ~schemaOk
        THEN [info |-> [NoInfo EXCEPT !.status = "error"], ticket |-> p.ticket,
              tracker |-> p.tracker]
        ELSE [info |-> [status |-> "ok",
                        schema |-> p.task.schema,
                        endpoint |-> <<endpoint>>,
                        ordered |-> p.task.ordered,
                        total_records |-> total_of(p.task.num_rows),
                        total_bytes |-> total_of(p.task.byte_size),
                        descriptor |-> ""],
              ticket |-> p.ticket,
              tracker |-> p.tracker]

\* FlightSqlService::get_flight_info_statement
get_flight_info_statement(query, schemaOk) ==
    LET r == sql_query(query, schemaOk)
    IN  /\ tracker' = r.tracker
        /\ nextTicket' = IF r.ticket # 0 THEN nextTicket + 1 ELSE nextTicket
        /\ lastInfo' = IF r.info.status = "ok"
                       THEN [r.info EXCEPT !.descriptor = query]
                       ELSE r.info
        /\ infoSchema' = IF r.info.status = "ok"
                         THEN [infoSchema EXCEPT ![r.ticket] = r.info.schema]
                         ELSE infoSchema
        /\ UNCHANGED <<takes, dgPc, dgTask, dgRes>>
        /\ UNCHANGED <<clusterVars, ctxVars, clientVars, lastSet, engineVars,
                   ddlVars, putVars, metaVars,
                   snapVars, configVars, respVars, tensorVars>>

\* a DoGet response: its status, the ticket asked for, the schema its stream
\* is encoded with (0: no stream), and whether the ticket had been consumed
\* or had never been issued when the call ran
DoGetResult(status, ticket, sch, stale) ==
    [status |-> status, ticket |-> ticket, schema |-> sch, stale |-> stale]

\* take_ticket that reads the task and leaves it in the tracker
take_ticket_peek(th, ticket) ==
    LET r == take(ticket)
        stale == ticket \notin issued \/ takes[ticket] > 0
    IN  /\ UNCHANGED tracker
        /\ IF r.some
           THEN /\ dgPc' = [dgPc EXCEPT ![th] = "stream"]
                /\ dgTask' = [dgTask EXCEPT ![th] = r.task]
                /\ takes' = [takes EXCEPT ![ticket] = @ + 1]
                /\ dgRes' = [dgRes EXCEPT ![th] =
                                DoGetResult("pending", ticket, 0, stale)]
           ELSE /\ dgRes' = [dgRes EXCEPT ![th] =
                                DoGetResult("not_found", ticket, 0, stale)]
                /\ UNCHANGED <<dgPc, dgTask, takes>>
        /\ UNCHANGED <<nextTicket, infoSchema, lastInfo>>
        /\ UNCHANGED <<clusterVars, ctxVars, clientVars, lastSet, engineVars,
                   ddlVars, putVars, metaVars,
                   snapVars, configVars, respVars, tensorVars>>

\* take_ticket that answers a missing ticket with an empty stream, not an error
take_ticket_none_ok(th, ticket) ==
    LET r == take(ticket)
        stale == ticket \notin issued \/ takes[ticket] > 0
    IN  /\ tracker' = r.tracker
        /\ IF r.some
           THEN /\ dgPc' = [dgPc EXCEPT ![th] = "stream"]
                /\ dgTask' = [dgTask EXCEPT ![th] = r.task]
                /\ takes' = [takes EXCEPT ![ticket] = @ + 1]
                /\ dgRes' = [dgRes EXCEPT ![th] =
                                DoGetResult("pending", ticket, 0, stale)]
           ELSE /\ dgRes' = [dgRes EXCEPT ![th] =
                                DoGetResult("ok", ticket, 0, stale)]
                /\ UNCHANGED <<dgPc, dgTask, takes>>
        /\ UNCHANGED <<nextTicket, infoSchema, lastInfo>>
        /\ UNCHANGED <<clusterVars, ctxVars, clientVars, lastSet, engineVars,
                   ddlVars, putVars, metaVars,
                   snapVars, configVars, respVars, tensorVars>>

\* SynapseSqlService::take_ticket, up to the await of task.stream()
take_ticket(th, ticket) ==
    LET r == take(ticket)
        stale == ticket \notin issued \/ takes[ticket] > 0
    IN  /\ tracker' = r.tracker
        /\ IF r.some
           THEN /\ dgPc' = [dgPc EXCEPT ![th] = "stream"]
                /\ dgTask' = [dgTask EXCEPT ![th] = r.task]
                /\ takes' = [takes EXCEPT ![ticket] = @ + 1]
                /\ dgRes' = [dgRes EXCEPT ![th] =
                                DoGetResult("pending", ticket, 0, stale)]
           ELSE /\ dgRes' = [dgRes EXCEPT ![th] =
                                DoGetResult("not_found", ticket, 0, stale)]
                /\ UNCHANGED <<dgPc, dgTask, takes>>
        /\ UNCHANGED <<nextTicket, infoSchema, lastInfo>>
        /\ UNCHANGED <<clusterVars, ctxVars, clientVars, lastSet, engineVars,
                   ddlVars, putVars, metaVars,
                   snapVars, configVars, respVars, tensorVars>>

\* take_ticket encoding the stream with the schema the table has now, not
\* with the schema of the task
take_ticket_stream_catalog(th, streamOk) ==
    /\ dgPc[th] = "stream"
    /\ dgPc' = [dgPc EXCEPT ![th] = "idle"]
    /\ dgTask' = [dgTask EXCEPT ![th] = NoTask]
    /\ dgRes' = [dgRes EXCEPT ![th] =
                    IF streamOk
                    THEN [@ EXCEPT !.status = "ok",
                                   !.schema = table(QueryTable.catalog, QueryTable.schema,
                                                    QueryTable.table).info]
                    ELSE [@ EXCEPT !.status = "error"]]
    /\ UNCHANGED <<tracker, nextTicket, infoSchema, takes, lastInfo>>
    /\ UNCHANGED <<clusterVars, ctxVars, clientVars, lastSet, engineVars,
                   ddlVars, putVars, metaVars,
                   snapVars, configVars, respVars, tensorVars>>

\* a take_ticket that puts the task back under its ticket when the stream
\* cannot be created
take_ticket_stream_restore(th, streamOk) ==
    /\ dgPc[th] = "stream"
    /\ dgPc' = [dgPc EXCEPT ![th] = "idle"]
    /\ dgTask' = [dgTask EXCEPT ![th] = NoTask]
    /\ dgRes' = [dgRes EXCEPT ![th] =
                    IF streamOk
                    THEN [@ EXCEPT !.status = "ok", !.schema = dgTask[th].schema]
                    ELSE [@ EXCEPT !.status = "error"]]
    /\ tracker' = IF streamOk THEN tracker
                  ELSE [tracker EXCEPT ![dgRes[th].ticket] = dgTask[th]]
    /\ UNCHANGED <<nextTicket, infoSchema, takes, lastInfo>>
    /\ UNCHANGED <<clusterVars, ctxVars, clientVars, lastSet, engineVars,
                   ddlVars, putVars, metaVars,
                   snapVars, configVars, respVars, tensorVars>>

\* SynapseSqlService::take_ticket, from the await of task.stream() on:
\* streamOk = FALSE is task.stream() returning an error
take_ticket_stream(th, streamOk) ==
    /\ dgPc[th] = "stream"
    /\ dgPc' = [dgPc EXCEPT ![th] = "idle"]
    /\ dgTask' = [dgTask EXCEPT ![th] = NoTask]
    /\ dgRes' = [dgRes EXCEPT ![th] =
                    IF streamOk
                    THEN [@ EXCEPT !.status = "ok", !.schema = dgTask[th].schema]
                    ELSE [@ EXCEPT !.status = "error"]]
    /\ UNCHANGED <<tracker, nextTicket, infoSchema, takes, lastInfo>>
    /\ UNCHANGED <<clusterVars, ctxVars, clientVars, lastSet, engineVars,
                   ddlVars, putVars, metaVars,
                   snapVars, configVars, respVars, tensorVars>>

\* a DoGet whose ticket bytes do not decode ends with the decode error
do_get_invalid(th) ==
    /\ dgRes' = [dgRes EXCEPT ![th] = DoGetResult("invalid", 0, 0, FALSE)]
    /\ UNCHANGED <<tracker, nextTicket, infoSchema, takes, lastInfo, dgPc, dgTask>>
    /\ UNCHANGED <<clusterVars, ctxVars, clientVars, lastSet, engineVars,
                   ddlVars, putVars, metaVars,
                   snapVars, configVars, respVars, tensorVars>>

\* FlightSqlService::do_get_statement
do_get_statement(th, handle) ==
    /\ dgPc[th] = "idle"
    /\ IF handle = Malformed THEN do_get_invalid(th) ELSE take_ticket(th, handle)

\* FlightSqlService::do_get_fallback
do_get_fallback(th, handle) ==
    /\ dgPc[th] = "idle"
    /\ IF handle = Malformed THEN do_get_invalid(th) ELSE take_ticket(th, handle)

(***************************************************************************)
(* DoPut(StatementUpdate) (flight.rs) and the topic publisher.  The SQL    *)
(* parser, Engine::topic and the Publisher are not part of the sources at  *)
(* hand; they follow sections 4.6 and 6 of the specification: send appends *)
(* one batch to the topic, flush commits what send has accepted.           *)
(***************************************************************************)
\* the statements a client sends with DoPut
PutQueries == {"COPY this TO topic", "COPY other TO topic",
               "COPY (SELECT 1) TO topic", "INSERT INTO t VALUES (1)", "COPY this"}

\* sql_to_statement(query, dialect): the parsed statement, or a parse error
sql_to_statement(query) ==
    CASE query = "COPY this TO topic" ->
           [kind |-> "CopyTo", source |-> "Relation", idents |-> <<"this">>,
            target |-> "topic"]
      [] query = "COPY other TO topic" ->
           [kind |-> "CopyTo", source |-> "Relation", idents |-> <<"other">>,
            target |-> "topic"]
      [] query = "COPY (SELECT 1) TO topic" ->
           [kind |-> "CopyTo", source |-> "Query", idents |-> <<>>,
            target |-> "topic"]
      [] query = "INSERT INTO t VALUES (1)" ->
           [kind |-> "Statement", source |-> "none", idents |-> <<>>,
            target |-> NoName]
      [] OTHER ->
           [kind |-> "ParseError", source |-> "none", idents |-> <<>>,
            target |-> NoName]

\* the match arm of do_put_statement_update that accepts the statement
is_copy_this(stmt) ==
    stmt.kind = "CopyTo" /\ stmt.source = "Relation" /\ stmt.idents = <<"this">>

\* record batches of the incoming stream: the n-th batch of a stream with
\* its number of rows
BatchRows == {10, 20, 30}
Streams == UNION {[1 .. n -> BatchRows] : n \in 0 .. MaxBatches}
batches_of(sizes) == [i \in 1 .. Len(sizes) |-> [seq |-> i, num_rows |-> sizes[i]]]

RECURSIVE sum_rows(_)
sum_rows(bs) == IF bs = <<>> THEN 0 ELSE Head(bs).num_rows + sum_rows(Tail(bs))

NoStatement == [query |-> "", stmt |-> sql_to_statement(""), input |-> <<>>,
                inputErr |-> FALSE]
NoPutResult == [status |-> "none", count |-> -1]

\* number of batches the handler has pulled from the incoming stream
pulled == Len(dpStmt.input) - Len(dpIn)

\* FlightSqlService::do_put_statement_update, up to the loop: the statement is
\* parsed and matched, and the publisher of the target topic is obtained.
\* `input` / `inputErr` is what the client will stream: the batches, and
\* whether the stream then fails instead of ending.
do_put_statement_update(query, input, inputErr, topicExists) ==
    LET stmt == sql_to_statement(query)
    IN  /\ dpPc = "idle"
        /\ dpStmt' = [query |-> query, stmt |-> stmt, input |-> batches_of(input),
                      inputErr |-> inputErr]
        /\ dpIn' = batches_of(input)
        /\ dpRows' = 0
        /\ dpHeld' = <<>>
        /\ dpLog' = <<>>
        /\ dpFlushed' = 0
        /\ IF stmt.kind = "ParseError"
           THEN dpPc' = "idle" /\ dpRes' = [status |-> "error", count |-> -1]
           ELSE IF is_copy_this(stmt)
           THEN IF topicExists
                THEN dpPc' = "pull" /\ dpRes' = [status |-> "pending", count |-> -1]
                ELSE \* self.engine.topic(target).get().unwrap() on None
                     dpPc' = "idle" /\ dpRes' = [status |-> "panic", count |-> -1]
           ELSE \* the arm `_ => todo!()`
                dpPc' = "idle" /\ dpRes' = [status |-> "panic", count |-> -1]
        /\ UNCHANGED <<clusterVars, ctxVars, clientVars, lastSet, flightVars,
                       engineVars, ddlVars, metaVars,
                   snapVars, configVars, respVars, tensorVars>>

\* the loop counting one per batch instead of the rows of the batch
do_put_pull_count_batches ==
    /\ dpPc = "pull"
    /\ IF dpIn = <<>>
       THEN /\ IF dpStmt.inputErr
               THEN dpPc' = "idle" /\ dpRes' = [status |-> "error", count |-> -1]
               ELSE dpPc' = "flush" /\ UNCHANGED dpRes
            /\ UNCHANGED <<dpIn, dpRows, dpHeld>>
       ELSE /\ dpIn' = Tail(dpIn)
            /\ dpRows' = dpRows + 1
            /\ dpHeld' = <<Head(dpIn)>>
            /\ dpPc' = "send"
            /\ UNCHANGED dpRes
    /\ UNCHANGED <<dpStmt, dpLog, dpFlushed>>
    /\ UNCHANGED <<clusterVars, ctxVars, clientVars, lastSet, flightVars,
                   engineVars, ddlVars, metaVars,
                   snapVars, configVars, respVars, tensorVars>>

\* do_put_statement_update, `stream.try_next().await?` and the row count:
\* the next batch is pulled, or the stream has ended, or it has failed
do_put_pull ==
    /\ dpPc = "pull"
    /\ IF dpIn = <<>>
       THEN /\ IF dpStmt.inputErr
               THEN dpPc' = "idle" /\ dpRes' = [status |-> "error", count |-> -1]
               ELSE dpPc' = "flush" /\ UNCHANGED dpRes
            /\ UNCHANGED <<dpIn, dpRows, dpHeld>>
       ELSE /\ dpIn' = Tail(dpIn)
            /\ dpRows' = dpRows + Head(dpIn).num_rows
            /\ dpHeld' = <<Head(dpIn)>>
            /\ dpPc' = "send"
            /\ UNCHANGED dpRes
    /\ UNCHANGED <<dpStmt, dpLog, dpFlushed>>
    /\ UNCHANGED <<clusterVars, ctxVars, clientVars, lastSet, flightVars,
                   engineVars, ddlVars, metaVars,
                   snapVars, configVars, respVars, tensorVars>>

\* send putting the batch in front of the batches accepted before it
do_put_send_in_front(sendOk) ==
    /\ dpPc = "send"
    /\ dpHeld' = <<>>
    /\ IF sendOk
       THEN dpLog' = dpHeld \o dpLog /\ dpPc' = "pull" /\ UNCHANGED dpRes
       ELSE /\ dpPc' = "idle" /\ dpRes' = [status |-> "error", count |-> -1]
            /\ UNCHANGED dpLog
    /\ UNCHANGED <<dpStmt, dpIn, dpRows, dpFlushed>>
    /\ UNCHANGED <<clusterVars, ctxVars, clientVars, lastSet, flightVars,
                   engineVars, ddlVars, metaVars,
                   snapVars, configVars, respVars, tensorVars>>

\* a loop that reports a failed send and goes on with the next batch
do_put_send_keep_going(sendOk) ==
    /\ dpPc = "send"
    /\ dpHeld' = <<>>
    /\ dpPc' = "pull"
    /\ IF sendOk
       THEN dpLog' = dpLog \o dpHeld /\ UNCHANGED dpRes
       ELSE /\ dpRes' = [status |-> "error", count |-> -1]
            /\ UNCHANGED dpLog
    /\ UNCHANGED <<dpStmt, dpIn, dpRows, dpFlushed>>
    /\ UNCHANGED <<clusterVars, ctxVars, clientVars, lastSet, flightVars,
                   engineVars, ddlVars, metaVars,
                   snapVars, configVars, respVars, tensorVars>>

\* do_put_statement_update, `pb.send(batch).await?` resolving: the publisher
\* has appended the batch (sendOk) or send has failed
do_put_send(sendOk) ==
    /\ dpPc = "send"
    /\ dpHeld' = <<>>
    /\ IF sendOk
       THEN dpLog' = dpLog \o dpHeld /\ dpPc' = "pull" /\ UNCHANGED dpRes
       ELSE /\ dpPc' = "idle" /\ dpRes' = [status |-> "error", count |-> -1]
            /\ UNCHANGED dpLog
    /\ UNCHANGED <<dpStmt, dpIn, dpRows, dpFlushed>>
    /\ UNCHANGED <<clusterVars, ctxVars, clientVars, lastSet, flightVars,
                   engineVars, ddlVars, metaVars,
                   snapVars, configVars, respVars, tensorVars>>

\* do_put_statement_update, `pb.flush().await?` resolving and `Ok(rows as i64)`
do_put_flush(flushOk) ==
    /\ dpPc = "flush"
    /\ dpPc' = "idle"
    /\ IF flushOk
       THEN /\ dpFlushed' = Len(dpLog)
            /\ dpRes' = [status |-> "ok", count |-> as_i64(dpRows)]
       ELSE /\ dpRes' = [status |-> "error", count |-> -1]
            /\ UNCHANGED dpFlushed
    /\ UNCHANGED <<dpStmt, dpIn, dpRows, dpHeld, dpLog>>
    /\ UNCHANGED <<clusterVars, ctxVars, clientVars, lastSet, flightVars,
                   engineVars, ddlVars, metaVars,
                   snapVars, configVars, respVars, tensorVars>>

(***************************************************************************)
(* Prepared statements, metadata GetFlightInfo and the unsupported verbs   *)
(* (flight.rs).  PreparedStatement / PreparedStatements are not part of    *)
(* the sources at hand; the table maps a handle to the statement stored    *)
(* under it (section 3 of the specification).                              *)
(***************************************************************************)
StatementHandles == 1 .. MaxStatements
PrepQueries == {"SELECT 1", "SELECT a FROM t"}

\* the first handle not in use (handles are fresh)
next_handle ==
    CHOOSE h \in 1 .. MaxStatements + 1 :
        /\ \A g \in StatementHandles : g < h => statements[g] # NoName
        /\ h \in StatementHandles => statements[h] = NoName

NoPrep == [query |-> NoName, status |-> "none", handle |-> 0]

\* a create-prepared handler that stores the statement as soon as it is
\* planned, before the schemas are serialized
do_action_create_prepared_statement_insert_first(query, planOk, ipcOk) ==
    /\ next_handle \in StatementHandles
    /\ statements' = IF planOk THEN [statements EXCEPT ![next_handle] = query]
                     ELSE statements
    /\ lastPrep' = IF planOk /\ ipcOk
                   THEN [query |-> query, status |-> "ok", handle |-> next_handle]
                   ELSE [query |-> query, handle |-> 0,
                         status |-> IF planOk THEN "internal" ELSE "plan_error"]
    /\ UNCHANGED <<lastMeta, lastVerb, lastSqlInfo, lastQuery>>
    /\ UNCHANGED <<clusterVars, ctxVars, clientVars, lastSet, flightVars,
                   engineVars, ddlVars, putVars,
                   snapVars, configVars, tensorVars>>

\* FlightSqlService::do_action_create_prepared_statement: planOk = FALSE is
\* PreparedStatement::new or parameter_schema() failing, ipcOk = FALSE is a
\* schema that does not serialize
do_action_create_prepared_statement(query, planOk, ipcOk) ==
    /\ next_handle \in StatementHandles
    /\ IF planOk /\ ipcOk
       THEN /\ statements' = [statements EXCEPT ![next_handle] = query]
            /\ lastPrep' = [query |-> query, status |-> "ok", handle |-> next_handle]
       ELSE /\ UNCHANGED statements
            /\ lastPrep' = [query |-> query, handle |-> 0,
                            status |-> IF planOk THEN "internal" ELSE "plan_error"]
    /\ UNCHANGED <<lastMeta, lastVerb, lastSqlInfo, lastQuery>>
    /\ UNCHANGED <<clusterVars, ctxVars, clientVars, lastSet, flightVars,
                   engineVars, ddlVars, putVars,
                   snapVars, configVars, tensorVars>>

\* the metadata commands of a GetFlightInfo request, with their fields
MetaCommands ==
    {[cmd |-> "CommandGetCatalogs", fields |-> <<>>]}
    \cup {[cmd |-> "CommandGetDbSchemas", fields |-> <<c, p>>] :
             c \in {NoName, "synapse"}, p \in {NoName, "pub%"}}
    \cup {[cmd |-> "CommandGetTables", fields |-> <<c, b>>] :
             c \in {NoName, "synapse"}, b \in BOOLEAN}
    \cup {[cmd |-> "CommandGetSqlInfo", fields |-> codes] :
             codes \in {<<>>, <<0>>, <<0, 1>>, <<2>>}}

\* ProstMessageExt::type_url of each command
TypeUrl ==
    [CommandGetCatalogs |-> "type.googleapis.com/arrow.flight.protocol.sql.CommandGetCatalogs",
     CommandGetDbSchemas |-> "type.googleapis.com/arrow.flight.protocol.sql.CommandGetDbSchemas",
     CommandGetTables |-> "type.googleapis.com/arrow.flight.protocol.sql.CommandGetTables",
     CommandGetSqlInfo |-> "type.googleapis.com/arrow.flight.protocol.sql.CommandGetSqlInfo",
     TicketStatementQuery |-> "type.googleapis.com/arrow.flight.protocol.sql.TicketStatementQuery"]

\* query.as_any().encode_to_vec(): the Any message (type_url, value) of the
\* command, with the command's own encoding as the value
encode_any(query) == <<TypeUrl[query.cmd], query.fields>>

\* Any::decode and Command::try_from: the command a ticket payload carries
decode_any(bytes) ==
    [cmd |-> CHOOSE k \in DOMAIN TypeUrl : TypeUrl[k] = bytes[1],
     fields |-> bytes[2]]

\* the Arrow schema of the result of each metadata command
meta_schema(query) ==
    CASE query.cmd = "CommandGetCatalogs" -> "catalogs"
      [] query.cmd = "CommandGetDbSchemas" -> "db_schemas"
      [] query.cmd = "CommandGetTables" ->
           IF query.fields[2] THEN "tables_with_schema" ELSE "tables"
      [] OTHER -> "sql_info"

NoMeta == [request |-> [cmd |-> "none", fields |-> <<>>], status |-> "none",
           schema |-> "", endpoint |-> <<>>]

\* the FlightInfo the four metadata handlers build: the ticket is the
\* encoded command; schemaOk = FALSE is try_with_schema failing
meta_flight_info(query, schemaOk) ==
    IF schemaOk
    THEN [request |-> query, status |-> "ok", schema |-> meta_schema(query),
          endpoint |-> << [ticket |-> encode_any(query), location |-> <<>>] >>]
    ELSE [request |-> query, status |-> "error", schema |-> "", endpoint |-> <<>>]

\* FlightSqlService::get_flight_info_catalogs
get_flight_info_catalogs(query, schemaOk) ==
    /\ query.cmd = "CommandGetCatalogs"
    /\ lastMeta' = meta_flight_info(query, schemaOk)
    /\ UNCHANGED <<statements, lastVerb>>
    /\ UNCHANGED <<clusterVars, ctxVars, clientVars, lastSet, flightVars,
                   engineVars, ddlVars, putVars,
                   snapVars, configVars, respVars, tensorVars>>

\* FlightSqlService::get_flight_info_schemas
get_flight_info_schemas(query, schemaOk) ==
    /\ query.cmd = "CommandGetDbSchemas"
    /\ lastMeta' = meta_flight_info(query, schemaOk)
    /\ UNCHANGED <<statements, lastVerb>>
    /\ UNCHANGED <<clusterVars, ctxVars, clientVars, lastSet, flightVars,
                   engineVars, ddlVars, putVars,
                   snapVars, configVars, respVars, tensorVars>>

\* FlightSqlService::get_flight_info_tables
get_flight_info_tables(query, schemaOk) ==
    /\ query.cmd = "CommandGetTables"
    /\ lastMeta' = meta_flight_info(query, schemaOk)
    /\ UNCHANGED <<statements, lastVerb>>
    /\ UNCHANGED <<clusterVars, ctxVars, clientVars, lastSet, flightVars,
                   engineVars, ddlVars, putVars,
                   snapVars, configVars, respVars, tensorVars>>

\* get_flight_info_sql_info answering with the ticket of a planned statement
get_flight_info_sql_info_as_statement(query, schemaOk) ==
    /\ query.cmd = "CommandGetSqlInfo"
    /\ nextTicket \in Tickets
    /\ lastMeta' = [meta_flight_info(query, TRUE) EXCEPT
                      !.endpoint = << [ticket |-> <<TypeUrl.TicketStatementQuery,
                                                    <<nextTicket>> >>,
                                       location |-> <<>>] >>]
    /\ tracker' = [tracker EXCEPT ![nextTicket] =
                      [NoTask EXCEPT !.schema = 1]]
    /\ nextTicket' = nextTicket + 1
    /\ UNCHANGED <<infoSchema, takes, lastInfo, dgPc, dgTask, dgRes>>
    /\ UNCHANGED <<statements, lastVerb>>
    /\ UNCHANGED <<clusterVars, ctxVars, clientVars, lastSet,
                   engineVars, ddlVars, putVars,
                   snapVars, configVars, respVars, tensorVars>>

\* FlightSqlService::get_flight_info_sql_info
get_flight_info_sql_info(query, schemaOk) ==
    /\ query.cmd = "CommandGetSqlInfo"
    /\ lastMeta' = meta_flight_info(query, schemaOk)
    /\ UNCHANGED <<statements, lastVerb>>
    /\ UNCHANGED <<clusterVars, ctxVars, clientVars, lastSet, flightVars,
                   engineVars, ddlVars, putVars,
                   snapVars, configVars, respVars, tensorVars>>

\* the handlers of flight.rs whose body is Err(Status::unimplemented(..))
UnsupportedVerbs ==
    {"get_flight_info_substrait_plan", "get_flight_info_prepared_statement",
     "get_flight_info_table_types", "get_flight_info_primary_keys",
     "get_flight_info_exported_keys", "get_flight_info_imported_keys",
     "get_flight_info_cross_reference", "get_flight_info_xdbc_type_info",
     "do_get_prepared_statement", "do_get_table_types", "do_get_primary_keys",
     "do_get_exported_keys", "do_get_imported_keys", "do_get_cross_reference",
     "do_get_xdbc_type_info", "do_put_substrait_plan",
     "do_put_prepared_statement_query", "do_put_prepared_statement_update",
     "do_action_close_prepared_statement",
     "do_action_create_prepared_substrait_plan", "do_action_begin_transaction",
     "do_action_end_transaction", "do_action_begin_savepoint",
     "do_action_end_savepoint", "do_action_cancel_query"}

NoVerb == [verb |-> "none", arg |-> 0, status |-> "none"]

\* an unsupported verb in which close-prepared drops the statement of the
\* handle it is given
unimplemented_close_drops(verb, arg) ==
    /\ lastVerb' = [verb |-> verb, arg |-> arg, status |-> "Unimplemented"]
    /\ statements' = IF verb = "do_action_close_prepared_statement"
                     THEN [statements EXCEPT ![arg] = NoName]
                     ELSE statements
    /\ UNCHANGED lastMeta
    /\ UNCHANGED <<clusterVars, ctxVars, clientVars, lastSet, flightVars,
                   engineVars, ddlVars, putVars,
                   snapVars, configVars, respVars, tensorVars>>

\* each handler of UnsupportedVerbs: the request (arg: the handle or ticket
\* it names) is ignored and the call returns Status::unimplemented
unimplemented(verb, arg) ==
    /\ lastVerb' = [verb |-> verb, arg |-> arg, status |-> "Unimplemented"]
    /\ UNCHANGED <<statements, lastMeta>>
    /\ UNCHANGED <<clusterVars, ctxVars, clientVars, lastSet, flightVars,
                   engineVars, ddlVars, putVars,
                   snapVars, configVars, respVars, tensorVars>>

(***************************************************************************)
(* Engine slot and shutdown (context.rs).                                  *)
(***************************************************************************)
\* SynapseContext::shutdown is called on clone k: lock_owned() is awaited
shutdown(k) ==
    /\ sdPc[k] = "idle"
    /\ sdPc' = [sdPc EXCEPT ![k] = "lock"]
    /\ sdLate' = [sdLate EXCEPT ![k] = \E j \in Clones : sdPc[j] = "done"]
    /\ UNCHANGED <<slot, lockHolder, sdRes, teardowns>>
    /\ UNCHANGED <<clusterVars, ctxVars, clientVars, lastSet, flightVars,
                   ddlVars, putVars, metaVars,
                   snapVars, configVars, respVars, tensorVars>>

\* shutdown reading the engine out of the slot without emptying the slot
shutdown_take_keep(k) ==
    /\ sdPc[k] = "lock"
    /\ lockHolder = 0
    /\ UNCHANGED slot
    /\ IF slot
       THEN /\ lockHolder' = k
            /\ sdPc' = [sdPc EXCEPT ![k] = "teardown"]
            /\ teardowns' = teardowns + 1
            /\ UNCHANGED sdRes
       ELSE /\ sdPc' = [sdPc EXCEPT ![k] = "done"]
            /\ sdRes' = [sdRes EXCEPT ![k] = "Ok"]
            /\ UNCHANGED <<lockHolder, teardowns>>
    /\ UNCHANGED sdLate
    /\ UNCHANGED <<clusterVars, ctxVars, clientVars, lastSet, flightVars,
                   ddlVars, putVars, metaVars,
                   snapVars, configVars, respVars, tensorVars>>

\* SynapseContext::shutdown, once the lock is granted: std::mem::take on the
\* slot.  The guard is a temporary of the `if let` scrutinee, so it lives to
\* the end of the `if let` statement: with Some(engine) it is still held
\* while engine.shutdown() is awaited; with None the statement ends at once.
shutdown_take(k) ==
    /\ sdPc[k] = "lock"
    /\ lockHolder = 0
    /\ slot' = FALSE
    /\ IF slot
       THEN /\ lockHolder' = k
            /\ sdPc' = [sdPc EXCEPT ![k] = "teardown"]
            /\ teardowns' = teardowns + 1
            /\ UNCHANGED sdRes
       ELSE /\ sdPc' = [sdPc EXCEPT ![k] = "done"]
            /\ sdRes' = [sdRes EXCEPT ![k] = "Ok"]
            /\ UNCHANGED <<lockHolder, teardowns>>
    /\ UNCHANGED sdLate
    /\ UNCHANGED <<clusterVars, ctxVars, clientVars, lastSet, flightVars,
                   ddlVars, putVars, metaVars,
                   snapVars, configVars, respVars, tensorVars>>

\* a shutdown that puts the engine back into the slot when its teardown fails
shutdown_done_restore(k, engineOk) ==
    /\ sdPc[k] = "teardown"
    /\ lockHolder' = 0
    /\ sdPc' = [sdPc EXCEPT ![k] = "done"]
    /\ sdRes' = [sdRes EXCEPT ![k] = IF engineOk THEN "Ok" ELSE "Err"]
    /\ slot' = ~engineOk
    /\ UNCHANGED <<teardowns, sdLate>>
    /\ UNCHANGED <<clusterVars, ctxVars, clientVars, lastSet, flightVars,
                   ddlVars, putVars, metaVars,
                   snapVars, configVars, respVars, tensorVars>>

\* SynapseContext::shutdown, when engine.shutdown().await resolves:
\* engineOk = FALSE is Engine::shutdown returning an error, which `?` returns
shutdown_done(k, engineOk) ==
    /\ sdPc[k] = "teardown"
    /\ lockHolder' = 0
    /\ sdPc' = [sdPc EXCEPT ![k] = "done"]
    /\ sdRes' = [sdRes EXCEPT ![k] = IF engineOk THEN "Ok" ELSE "Err"]
    /\ UNCHANGED <<slot, teardowns, sdLate>>
    /\ UNCHANGED <<clusterVars, ctxVars, clientVars, lastSet, flightVars,
                   ddlVars, putVars, metaVars,
                   snapVars, configVars, respVars, tensorVars>>

(***************************************************************************)
(* DoGet of the catalog metadata (flight.rs).  The handlers walk the       *)
(* cluster through the session: the catalog names, then the schema names   *)
(* of each catalog, then the table names of each schema, each read being a *)
(* call of its own on the node it reads.  The commands carry no filter.    *)
(***************************************************************************)
\* SessionContext::catalog_names
catalog_names == {c \in CatNames : catalogs[c] # 0}

\* SynapseCatalog::schema_names
schema_names(c) == {s \in SchNames : schemas[<<c, s>>] # 0}

\* SynapseSchema::table_names: the table-like objects of the schema
table_names(c, s) == {t \in TblNames : tables[<<c, s, t>>].arc # 0}

\* the (catalog, schema) pairs and (catalog, schema, table) triples of the
\* cluster tree
cluster_entries ==
    {k \in CatNames \X SchNames : schemas[k] # 0}
    \cup {k \in CatNames \X SchNames \X TblNames : tables[k].arc # 0}

\* the elements of a set of names in the order the builder receives them
RECURSIVE names_in_order(_)
names_in_order(S) ==
    IF S = {} THEN <<>>
    ELSE LET n == CHOOSE x \in S : TRUE
         IN  <<n>> \o names_in_order(S \ {n})

NoRows == [kind |-> "none", status |-> "none", rows |-> <<>>]

\* a creator called on another clone of the Context while a metadata call
\* is under way: Context::create_catalog
writer_create_catalog(c) ==
    /\ catalog(c) = 0
    /\ catalogs' = state_create_catalog(c, FALSE).catalogs
    /\ UNCHANGED <<schemas, tables, ctxVars, clientVars, lastSet, flightVars,
                   engineVars, ddlVars, putVars, metaVars, snapVars,
                   configVars, respVars, tensorVars>>

\* Context::create_schema on another clone
writer_create_schema(c, s) ==
    LET r == state_create_schema([catalog |-> c, schema |-> s], FALSE)
    IN  /\ r.schemas # schemas
        /\ schemas' = r.schemas
        /\ treeLog' = IF gtPc = "idle" THEN treeLog ELSE Append(treeLog, <<c, s>>)
        /\ UNCHANGED <<catalogs, tables, ctxVars, clientVars, lastSet, flightVars,
                       engineVars, ddlVars, putVars, metaVars,
                       gtPc, gtCats, gtCat, gtSchs, gtSch, gtTbls, gtRows, gtStart,
                       configVars, respVars, tensorVars>>

\* Context::create_table / create_topic / create_view on another clone
writer_create_table(kind, c, s, t, info) ==
    LET r == state_create_object(kind, [catalog |-> c, schema |-> s, table |-> t],
                                 info, FALSE, FALSE)
    IN  /\ r.tables # tables
        /\ tables' = r.tables
        /\ treeLog' = IF gtPc = "idle" THEN treeLog ELSE Append(treeLog, <<c, s, t>>)
        /\ UNCHANGED <<catalogs, schemas, ctxVars, clientVars, lastSet, flightVars,
                       engineVars, ddlVars, putVars, metaVars,
                       gtPc, gtCats, gtCat, gtSchs, gtSch, gtTbls, gtRows, gtStart,
                       configVars, respVars, tensorVars>>

\* SynapseSqlService::do_get_tables, entry: ctx.catalog_names()
do_get_tables ==
    /\ gtPc = "idle"
    /\ gtPc' = "catalog"
    /\ gtCats' = catalog_names
    /\ gtCat' = NoName
    /\ gtSchs' = {}
    /\ gtSch' = NoName
    /\ gtTbls' = {}
    /\ gtRows' = [kind |-> "tables", status |-> "running", rows |-> <<>>]
    /\ gtStart' = cluster_entries
    /\ treeLog' = <<>>
    /\ UNCHANGED <<clusterVars, ctxVars, clientVars, lastSet, flightVars,
                   engineVars, ddlVars, putVars, metaVars,
                   configVars, respVars, tensorVars>>

\* do_get_tables, the loop over the catalog names: ctx.catalog(name) and its
\* schema_names(); after the last catalog the batch is built and returned
do_get_tables_catalog ==
    /\ gtPc = "catalog"
    /\ IF gtCats = {}
       THEN /\ gtPc' = "idle"
            /\ gtRows' = [gtRows EXCEPT !.status = "ok"]
            /\ UNCHANGED <<gtCats, gtCat, gtSchs>>
       ELSE \E c \in gtCats :
              /\ gtCats' = gtCats \ {c}
              /\ gtCat' = c
              /\ gtSchs' = schema_names(c)
              /\ gtPc' = "schema"
              /\ UNCHANGED gtRows
    /\ UNCHANGED <<clusterVars, ctxVars, clientVars, lastSet, flightVars,
                   engineVars, ddlVars, putVars, metaVars,
                   gtSch, gtTbls, gtStart, treeLog,
                   configVars, respVars, tensorVars>>

\* do_get_tables, the loop over the schema names of the catalog:
\* catalog.schema(name) and its table_names()
do_get_tables_schema ==
    /\ gtPc = "schema"
    /\ IF gtSchs = {}
       THEN /\ gtPc' = "catalog"
            /\ UNCHANGED <<gtSchs, gtSch, gtTbls>>
       ELSE \E s \in gtSchs :
              /\ gtSchs' = gtSchs \ {s}
              /\ gtSch' = s
              /\ gtTbls' = table_names(gtCat, s)
              /\ gtPc' = "table"
    /\ UNCHANGED <<clusterVars, ctxVars, clientVars, lastSet, flightVars,
                   engineVars, ddlVars, putVars, metaVars,
                   gtCats, gtCat, gtRows, gtStart, treeLog,
                   configVars, respVars, tensorVars>>

\* a do_get_tables loop that reports the kind of each object as its type
do_get_tables_table_by_kind(appendOk) ==
    /\ gtPc = "table"
    /\ IF gtTbls = {}
       THEN /\ gtPc' = "schema"
            /\ UNCHANGED <<gtTbls, gtRows>>
       ELSE \E t \in gtTbls :
              /\ gtTbls' = gtTbls \ {t}
              /\ gtRows' = [gtRows EXCEPT !.rows =
                    Append(@, [catalog |-> gtCat, schema |-> gtSch,
                               table |-> t, type |-> table(gtCat, gtSch, t).kind,
                               info |-> table(gtCat, gtSch, t).info])]
              /\ gtPc' = "table"
    /\ UNCHANGED <<clusterVars, ctxVars, clientVars, lastSet, flightVars,
                   engineVars, ddlVars, putVars, metaVars,
                   gtCats, gtCat, gtSchs, gtSch, gtStart, treeLog,
                   configVars, respVars, tensorVars>>

\* do_get_tables, the loop over the table names of the schema:
\* schema.table(name).await and builder.append(.., "TABLE", table.schema());
\* an append that fails ends the call with its status
do_get_tables_table(appendOk) ==
    /\ gtPc = "table"
    /\ IF gtTbls = {}
       THEN /\ gtPc' = "schema"
            /\ UNCHANGED <<gtTbls, gtRows>>
       ELSE \E t \in gtTbls :
              /\ gtTbls' = gtTbls \ {t}
              /\ IF appendOk
                 THEN /\ gtRows' = [gtRows EXCEPT !.rows =
                            Append(@, [catalog |-> gtCat, schema |-> gtSch,
                                       table |-> t, type |-> "TABLE",
                                       info |-> table(gtCat, gtSch, t).info])]
                      /\ gtPc' = "table"
                 ELSE /\ gtRows' = [gtRows EXCEPT !.status = "internal", !.rows = <<>>]
                      /\ gtPc' = "idle"
    /\ UNCHANGED <<clusterVars, ctxVars, clientVars, lastSet, flightVars,
                   engineVars, ddlVars, putVars, metaVars,
                   gtCats, gtCat, gtSchs, gtSch, gtStart, treeLog,
                   configVars, respVars, tensorVars>>

\* SynapseSqlService::do_get_schemas, entry: ctx.catalog_names()
do_get_schemas ==
    /\ gtPc = "idle"
    /\ gtPc' = "schemas"
    /\ gtCats' = catalog_names
    /\ gtCat' = NoName
    /\ gtSchs' = {}
    /\ gtSch' = NoName
    /\ gtTbls' = {}
    /\ gtRows' = [kind |-> "schemas", status |-> "running", rows |-> <<>>]
    /\ gtStart' = cluster_entries
    /\ treeLog' = <<>>
    /\ UNCHANGED <<clusterVars, ctxVars, clientVars, lastSet, flightVars,
                   engineVars, ddlVars, putVars, metaVars,
                   configVars, respVars, tensorVars>>

\* do_get_schemas, the loop over the catalog names: one row for each of
\* catalog.schema_names()
do_get_schemas_catalog ==
    /\ gtPc = "schemas"
    /\ IF gtCats = {}
       THEN /\ gtPc' = "idle"
            /\ gtRows' = [gtRows EXCEPT !.status = "ok"]
            /\ UNCHANGED <<gtCats, gtCat>>
       ELSE \E c \in gtCats :
              LET names == names_in_order(schema_names(c))
              IN  /\ gtCats' = gtCats \ {c}
                  /\ gtCat' = c
                  /\ gtRows' = [gtRows EXCEPT !.rows =
                         @ \o [i \in 1 .. Len(names) |->
                                 [catalog |-> c, schema |-> names[i]]]]
                  /\ gtPc' = "schemas"
    /\ UNCHANGED <<clusterVars, ctxVars, clientVars, lastSet, flightVars,
                   engineVars, ddlVars, putVars, metaVars,
                   gtSchs, gtSch, gtTbls, gtStart, treeLog,
                   configVars, respVars, tensorVars>>

(***************************************************************************)
(* DoGet(GetSqlInfo) (flight.rs).                                          *)
(***************************************************************************)
\* SqlInfo::FlightSqlServerName, FlightSqlServerVersion and
\* FlightSqlServerArrowVersion, and a code the server has no entry for
InfoCodes == {0, 1, 2, 500}

\* the static SQL_INFO list: the value of each code it holds
SQL_INFO ==
    [code \in {0, 1, 2} |->
        CASE code = 0 -> "synapse"
          [] code = 1 -> "CARGO_PKG_VERSION"
          [] code = 2 -> "1.3"]

\* the lists of codes a request names
CodeLists ==
    {<<a>> : a \in InfoCodes} \cup {<<a, b>> : a \in InfoCodes, b \in InfoCodes}

\* an SQL-info list that ignores the codes and returns every entry
sql_info_filter_all(codes) ==
    [i \in 1 .. 3 |-> [code |-> i - 1, value |-> SQL_INFO[i - 1]]]

\* SQL_INFO.filter(&query.info).encode(), for a request that names codes:
\* the entries of the codes named, in the order of the codes
sql_info_filter(codes) ==
    LET named(code) == \E i \in 1 .. Len(codes) : codes[i] = code
        kept == SelectSeq(<<0, 1, 2>>, named)
    IN  [i \in 1 .. Len(kept) |-> [code |-> kept[i], value |-> SQL_INFO[kept[i]]]]

NoSqlInfo == [codes |-> <<>>, status |-> "none", rows |-> <<>>]

\* SynapseSqlService::do_get_sql_info
do_get_sql_info(codes) ==
    /\ lastSqlInfo' = [codes |-> codes, status |-> "ok", rows |-> sql_info_filter(codes)]
    /\ UNCHANGED <<lastPrep, lastQuery>>
    /\ UNCHANGED <<clusterVars, ctxVars, clientVars, lastSet, flightVars,
                   engineVars, ddlVars, putVars, metaVars, snapVars,
                   configVars, tensorVars>>

(***************************************************************************)
(* Config scopes (client.rs).  The SetConfig / GetConfig handlers of the   *)
(* service follow section 4.5 of the specification: scope Connection is    *)
(* the caller's session Config, scope Cluster the cluster-wide defaults.   *)
(***************************************************************************)
Scopes == {"Connection", "Cluster"}

\* the Configs a caller sends
Configs ==
    {[default_catalog |-> c, default_schema |-> "public", options |-> o] :
        c \in CatNames, o \in {"default", "strict"}}

\* a client that sends every request with scope Cluster
config_scope_cluster(global) == "Cluster"

\* SynapseClient::set_config / get_config: the scope of the request
config_scope(global) == IF global THEN "Cluster" ELSE "Connection"

NoGet == [scope |-> "none", status |-> "none", cfg |-> NoCall.cfg]

NoSent == [by |-> "none", cfg |-> NoCall.cfg]

\* SynapseClient::set_config(&cfg, global) and the handler of the request:
\* rpcOk = FALSE is a transport failure
client_set_config(cfg, global, rpcOk) ==
    LET scope == config_scope(global)
        received == from_json(to_json(cfg))
    IN  /\ IF rpcOk
           THEN /\ connConfig' = IF scope = "Connection" THEN received ELSE connConfig
                /\ clusterConfig' = IF scope = "Cluster" THEN received ELSE clusterConfig
                /\ lastSent' = [lastSent EXCEPT
                       ![IF global THEN "Cluster" ELSE "Connection"] =
                           [by |-> "client", cfg |-> cfg]]
           ELSE UNCHANGED <<connConfig, clusterConfig, lastSent>>
        /\ UNCHANGED <<clPc, clCall, peerConfig, lastGet>>
        /\ UNCHANGED <<clusterVars, ctxVars, lastSet, flightVars,
                       engineVars, ddlVars, putVars, metaVars, snapVars,
                       respVars, tensorVars>>

\* set_config called by the client of another connection
peer_set_config(cfg, global) ==
    LET scope == config_scope(global)
        received == from_json(to_json(cfg))
    IN  /\ peerConfig' = IF scope = "Connection" THEN received ELSE peerConfig
        /\ clusterConfig' = IF scope = "Cluster" THEN received ELSE clusterConfig
        /\ lastSent' = IF global
                       THEN [lastSent EXCEPT !["Cluster"] = [by |-> "peer", cfg |-> cfg]]
                       ELSE lastSent
        /\ UNCHANGED lastGet
        /\ UNCHANGED <<clusterVars, ctxVars, clientVars, lastSet, flightVars,
                       engineVars, ddlVars, putVars, metaVars, snapVars,
                       respVars, tensorVars>>

\* SynapseClient::get_config(global) and the handler of the request
client_get_config(global, rpcOk) ==
    LET scope == config_scope(global)
        held == IF scope = "Cluster" THEN clusterConfig ELSE connConfig
    IN  /\ lastGet' = IF rpcOk
                      THEN [scope |-> IF global THEN "Cluster" ELSE "Connection",
                            status |-> "Ok", cfg |-> from_json(to_json(held))]
                      ELSE [scope |-> IF global THEN "Cluster" ELSE "Connection",
                            status |-> "ServerError", cfg |-> NoCall.cfg]
        /\ UNCHANGED <<clusterConfig, peerConfig, lastSent>>
        /\ UNCHANGED <<clusterVars, ctxVars, clientVars, lastSet, flightVars,
                       engineVars, ddlVars, putVars, metaVars, snapVars,
                       respVars, tensorVars>>

(***************************************************************************)
(* SynapseClient::query (client.rs): the FlightInfo the server answered    *)
(* with is turned into a lazy query.                                       *)
(***************************************************************************)
\* an endpoint of a FlightInfo: whether it carries a ticket, whether the
\* ticket bytes decode as an Any, the command of the Any ("" when its
\* type_url names no command) and whether the statement handle is a Plan
NoTicketEndpoint == [ticket |-> FALSE, any |-> FALSE, cmd |-> NoName, plan |-> FALSE]

Endpoints ==
    {NoTicketEndpoint,
     [ticket |-> TRUE, any |-> FALSE, cmd |-> NoName, plan |-> FALSE],
     [ticket |-> TRUE, any |-> TRUE, cmd |-> NoName, plan |-> FALSE],
     [ticket |-> TRUE, any |-> TRUE, cmd |-> "CommandGetCatalogs", plan |-> FALSE],
     [ticket |-> TRUE, any |-> TRUE, cmd |-> "TicketStatementQuery", plan |-> FALSE],
     [ticket |-> TRUE, any |-> TRUE, cmd |-> "TicketStatementQuery", plan |-> TRUE]}

FlightInfos ==
    {<<>>} \cup {<<e>> : e \in Endpoints}
           \cup {<<e, f>> : e \in Endpoints, f \in Endpoints}

\* the rest of query() once the ticket of an endpoint is at hand
query_ticket(e) ==
    IF ~e.any THEN [status |-> "ProstDecodeError", lazy |-> FALSE]
    ELSE IF e.cmd = NoName THEN [status |-> "ArrowError", lazy |-> FALSE]
    ELSE IF e.cmd # "TicketStatementQuery"
    THEN [status |-> "DecodeError", lazy |-> FALSE]
    ELSE IF ~e.plan THEN [status |-> "PlanError", lazy |-> FALSE]
    ELSE [status |-> "Ok", lazy |-> TRUE]

\* a query() that takes the first endpoint of any non-empty list
client_query_first_endpoint(info, executeOk) ==
    IF ~executeOk THEN [status |-> "ServerError", lazy |-> FALSE]
    ELSE IF Len(info) = 0 THEN [status |-> "MissingEndpoint", lazy |-> FALSE]
    ELSE IF ~info[1].ticket THEN [status |-> "MissingTicket", lazy |-> FALSE]
    ELSE query_ticket(info[1])

\* SynapseClient::query: the result for the FlightInfo `info`;
\* executeOk = FALSE is flight.execute failing
client_query_result(info, executeOk) ==
    IF ~executeOk THEN [status |-> "ServerError", lazy |-> FALSE]
    ELSE IF Len(info) = 0 THEN [status |-> "MissingEndpoint", lazy |-> FALSE]
    ELSE IF Len(info) = 1
    THEN IF ~info[1].ticket THEN [status |-> "MissingTicket", lazy |-> FALSE]
         ELSE query_ticket(info[1])
    ELSE [status |-> "panic", lazy |-> FALSE]

NoQuery == [info |-> <<>>, status |-> "none", lazy |-> FALSE]

\* SynapseClient::query called with a statement the server answers `info` to
client_query(info, executeOk) ==
    LET r == client_query_result(info, executeOk)
    IN  /\ lastQuery' = [info |-> IF executeOk THEN info ELSE <<>>,
                         status |-> r.status, lazy |-> r.lazy]
        /\ UNCHANGED <<lastPrep, lastSqlInfo>>
        /\ UNCHANGED <<clusterVars, ctxVars, clientVars, lastSet, flightVars,
                       engineVars, ddlVars, putVars, metaVars, snapVars,
                       configVars, tensorVars>>

(***************************************************************************)
(* Tensor::invert_axis and swap_axes (synapse-tensor/src/ops/shape.rs).    *)
(* A tensor is a view of a buffer: the offset of its first element, its    *)
(* shape and its strides; the element at an index is the buffer element at *)
(* the offset plus the sum of index times stride over the axes.  Strides   *)
(* are usize and a negative stride is kept as its two's complement.  The   *)
(* buffer holds 1, 2, 3, ... in order.                                     *)
(***************************************************************************)
Usize == 2 ^ UsizeBits

\* `x as usize` of an isize
as_usize(i) == i % Usize

\* `x as isize` of a usize
as_isize(u) == IF u >= Usize \div 2 THEN u - Usize ELSE u

\* shape::stride_offset(n, stride): the signed distance of n steps
stride_offset(n, stride) == n * as_isize(stride)

AxisSizes == 0 .. MaxDim
Axes == {1, 2}

\* tensor![..] of a shape: the rows of the buffer in order
tensor_of(shape) ==
    [offset |-> 0, shape |-> shape, strides |-> <<shape[2], 1>>]

\* the indices of a tensor (0-based along each axis)
indices(t) == {idx \in [Axes -> 0 .. MaxDim] : \A a \in Axes : idx[a] < t.shape[a]}

\* the element of t at idx
elem(t, idx) ==
    1 + t.offset + idx[1] * as_isize(t.strides[1]) + idx[2] * as_isize(t.strides[2])

\* an invert_axis that negates the stride and leaves the data offset alone
invert_axis_keep_offset(t, ax) ==
    [offset |-> t.offset, shape |-> t.shape,
     strides |-> [t.strides EXCEPT ![ax] = as_usize(0 - as_isize(t.strides[ax]))]]

\* Tensor::invert_axis(ax)
invert_axis(t, ax) ==
    LET stride == as_isize(t.strides[ax])
        size == t.shape[ax]
    IN  [offset  |-> IF size # 0
                     THEN t.offset + stride_offset(size - 1, as_usize(stride))
                     ELSE t.offset,
         shape   |-> t.shape,
         strides |-> [t.strides EXCEPT ![ax] = as_usize(0 - stride)]]

\* Tensor::swap_axes(ax1, ax2)
swap_axes(t, ax1, ax2) ==
    [offset  |-> t.offset,
     shape   |-> [t.shape EXCEPT ![ax1] = t.shape[ax2], ![ax2] = t.shape[ax1]],
     strides |-> [t.strides EXCEPT ![ax1] = t.strides[ax2], ![ax2] = t.strides[ax1]]]

\* a tensor is built from its rows
tensor_new(shape) ==
    /\ tn' = tensor_of(shape)
    /\ tnPrev' = tensor_of(shape)
    /\ tnAx' = 0
    /\ UNCHANGED <<clusterVars, ctxVars, clientVars, lastSet, flightVars,
                   engineVars, ddlVars, putVars, metaVars, snapVars,
                   configVars, respVars>>

\* t.invert_axis(ax) is taken of the tensor at hand
tensor_invert_axis(ax) ==
    /\ tn' = invert_axis(tn, ax)
    /\ tnPrev' = tn
    /\ tnAx' = ax
    /\ UNCHANGED <<clusterVars, ctxVars, clientVars, lastSet, flightVars,
                   engineVars, ddlVars, putVars, metaVars, snapVars,
                   configVars, respVars>>

\* t.swap_axes(0, 1) is taken of the tensor at hand
tensor_swap_axes ==
    /\ tn' = swap_axes(tn, 1, 2)
    /\ tnPrev' = tn
    /\ tnAx' = 0
    /\ UNCHANGED <<clusterVars, ctxVars, clientVars, lastSet, flightVars,
                   engineVars, ddlVars, putVars, metaVars, snapVars,
                   configVars, respVars>>

(***************************************************************************)
(* Initial state and the specifications.                                   *)
(***************************************************************************)
\* The cluster is opened either empty or with the default catalog and schema
\* already created; the Context is new (SynapseContext::new has started the
\* engine), the client is connected and no ticket has been issued.
Init ==
    /\ \E withDefault \in BOOLEAN :
         /\ catalogs = [c \in CatNames |->
                          IF withDefault /\ c = "synapse" THEN 1 ELSE 0]
         /\ schemas = [k \in CatNames \X SchNames |->
                          IF withDefault /\ k = <<"synapse", "public">> THEN 1 ELSE 0]
    /\ tables = [k \in CatNames \X SchNames \X TblNames |-> NoTable]
    /\ config = DefaultConfig
    /\ ctxRes = NoResult
    /\ usedCatalog = FALSE
    /\ connConfig = DefaultConfig
    /\ clPc = [cl \in Clients |-> "idle"]
    /\ clCall = [cl \in Clients |-> NoCall]
    /\ lastSet = SetRecord("none", "none", NoName, FALSE)
    /\ tracker = [t \in Tickets |-> NoTask]
    /\ nextTicket = 1
    /\ infoSchema = [t \in 1 .. MaxTickets + 1 |-> 0]
    /\ takes = [t \in 1 .. MaxTickets + 1 |-> 0]
    /\ lastInfo = NoInfo
    /\ dgPc = [th \in Threads |-> "idle"]
    /\ dgTask = [th \in Threads |-> NoTask]
    /\ dgRes = [th \in Threads |-> DoGetResult("none", 0, 0, FALSE)]
    /\ slot = TRUE
    /\ lockHolder = 0
    /\ sdPc = [k \in Clones |-> "idle"]
    /\ sdRes = [k \in Clones |-> "none"]
    /\ teardowns = 0
    /\ sdLate = [k \in Clones |-> FALSE]
    /\ ddlPc = [th \in Threads |-> "idle"]
    /\ ddlCall = [th \in Threads |-> NoDdl]
    /\ ddlRes = [th \in Threads |-> NoDdl]
    /\ lkRes = [th \in Threads |-> NoLookup]
    /\ installed = {}
    /\ dpPc = "idle"
    /\ dpStmt = NoStatement
    /\ dpIn = <<>>
    /\ dpRows = 0
    /\ dpHeld = <<>>
    /\ dpLog = <<>>
    /\ dpFlushed = 0
    /\ dpRes = NoPutResult
    /\ statements = [h \in StatementHandles |-> NoName]
    /\ lastMeta = NoMeta
    /\ lastVerb = NoVerb
    /\ gtPc = "idle"
    /\ gtCats = {}
    /\ gtCat = NoName
    /\ gtSchs = {}
    /\ gtSch = NoName
    /\ gtTbls = {}
    /\ gtRows = NoRows
    /\ gtStart = {}
    /\ treeLog = <<>>
    /\ clusterConfig = DefaultConfig
    /\ peerConfig = DefaultConfig
    /\ lastGet = NoGet
    /\ lastSent = [sc \in Scopes |-> NoSent]
    /\ lastPrep = NoPrep
    /\ lastSqlInfo = NoSqlInfo
    /\ lastQuery = NoQuery
    /\ tn = tensor_of(<<2, 3>>)
    /\ tnPrev = tensor_of(<<2, 3>>)
    /\ tnAx = 0

BareTable == [catalog |-> NoName, schema |-> NoName, table |-> "t"]

\* may the registry take one more object under the key of `ref`
CanInstall(ref) ==
    table(resolve(ref).catalog, resolve(ref).schema, resolve(ref).table).arc < MaxGen

\* may the call in progress on thread th run on the registry: a call that
\* installs an object needs room for one more under its key
CanCommit(th) ==
    LET c == ddlCall[th]
    IN  \/ state_create_table(c.res, c.info, c.ine, c.orr).tables = tables
        \/ table(c.res.catalog, c.res.schema, c.res.table).arc < MaxGen

\* Concurrent DoGet handlers over the tickets of one statement, with the
\* queried table created and replaced between the calls
NextTickets ==
    \/ \E info \in Infos :
         CanInstall(BareTable) /\ create_table(BareTable, info, FALSE, TRUE)
    \/ \E schemaOk \in BOOLEAN :
         nextTicket <= MaxTickets /\ get_flight_info_statement("q_rows", schemaOk)
    \/ \E th \in Threads, h \in Handles : do_get_statement(th, h)
    \/ \E th \in Threads, h \in Handles : do_get_fallback(th, h)
    \/ \E th \in Threads, streamOk \in BOOLEAN : take_ticket_stream(th, streamOk)

SpecTickets == Init /\ [][NextTickets]_vars

\* GetFlightInfo(Statement) for every statement, with one DoGet handler
NextFlightInfo ==
    \/ \E info \in Infos :
         CanInstall(BareTable) /\ create_table(BareTable, info, FALSE, TRUE)
    \/ \E q \in Queries, schemaOk \in BOOLEAN :
         nextTicket <= MaxTickets /\ get_flight_info_statement(q, schemaOk)
    \/ \E h \in Handles : do_get_statement(1, h)
    \/ \E h \in Handles : do_get_fallback(1, h)
    \/ \E streamOk \in BOOLEAN : take_ticket_stream(1, streamOk)

SpecFlightInfo == Init /\ [][NextFlightInfo]_vars

\* use_catalog / use_schema on the Context, with catalogs and schemas created
\* in between
NextContext ==
    \/ \E c \in CatNames, ine \in BOOLEAN : create_catalog(c, ine)
    \/ \E c \in CatNames \cup {NoName}, s \in SchNames, ine \in BOOLEAN :
         create_schema([catalog |-> c, schema |-> s], ine)
    \/ \E c \in CatNames : use_catalog(c)
    \/ \E s \in SchNames : use_schema(s)

SpecContext == Init /\ [][NextContext]_vars

\* use_catalog / use_schema on the Context and through one client handle
NextSession ==
    \/ \E c \in CatNames : create_catalog(c, FALSE)
    \/ \E c \in CatNames, s \in SchNames :
         create_schema([catalog |-> c, schema |-> s], FALSE)
    \/ \E c \in CatNames : use_catalog(c)
    \/ \E s \in SchNames : use_schema(s)
    \/ \E c \in CatNames, rpcOk \in BOOLEAN : client_use_catalog(1, c, rpcOk)
    \/ \E s \in SchNames, rpcOk \in BOOLEAN : client_use_schema(1, s, rpcOk)
    \/ \E rpcOk \in BOOLEAN : set_config(1, rpcOk)

SpecSession == Init /\ [][NextSession]_vars

\* DDL through the Context: tables are created under the default schema of
\* the default catalog and of catalog "c"
NextDDL ==
    \/ \E c \in CatNames, ine \in BOOLEAN : create_catalog(c, ine)
    \/ \E c \in CatNames \cup {NoName}, s \in SchNames, ine \in BOOLEAN :
         create_schema([catalog |-> c, schema |-> s], ine)
    \/ \E c \in {NoName, "c"}, t \in TblNames, info \in Infos,
          ine \in BOOLEAN, orr \in BOOLEAN :
         LET ref == [catalog |-> c, schema |-> NoName, table |-> t]
         IN  CanInstall(ref) /\ create_table(ref, info, ine, orr)

SpecDDL == Init /\ [][NextDDL]_vars

\* creators of schemas, tables, topics and views, with and without their
\* parent catalog and schema in the cluster
NextParents ==
    \/ \E c \in CatNames : create_catalog(c, FALSE)
    \/ \E c \in CatNames \cup {NoName}, s \in SchNames :
         create_schema([catalog |-> c, schema |-> s], FALSE)
    \/ \E c \in {NoName, "c"}, ine \in BOOLEAN, orr \in BOOLEAN :
         LET ref == [catalog |-> c, schema |-> NoName, table |-> "t"]
         IN  CanInstall(ref) /\ create_table(ref, 1, ine, orr)
    \/ \E c \in {NoName, "c"}, ine \in BOOLEAN, orr \in BOOLEAN :
         LET ref == [catalog |-> c, schema |-> NoName, table |-> "t"]
         IN  CanInstall(ref) /\ create_topic(ref, 1, ine, orr)
    \/ \E c \in {NoName, "c"}, ine \in BOOLEAN, orr \in BOOLEAN :
         LET ref == [catalog |-> c, schema |-> NoName, table |-> "t"]
         IN  CanInstall(ref) /\ create_view(ref, 1, ine, orr)

SpecParents == Init /\ [][NextParents]_vars

\* creators of tables, topics and views with every combination of flags,
\* through the Context and through a client
NextFlags ==
    \/ \E info \in Infos, ine \in BOOLEAN, orr \in BOOLEAN :
         CanInstall(BareTable) /\ create_table(BareTable, info, ine, orr)
    \/ \E info \in Infos, ine \in BOOLEAN, orr \in BOOLEAN :
         CanInstall(BareTable) /\ create_topic(BareTable, info, ine, orr)
    \/ \E info \in Infos, ine \in BOOLEAN, orr \in BOOLEAN :
         CanInstall(BareTable) /\ create_view(BareTable, info, ine, orr)
    \/ \E info \in Infos, ine \in BOOLEAN, orr \in BOOLEAN, rpcOk \in BOOLEAN :
         CanInstall(BareTable)
         /\ client_create_table(1, BareTable, info, ine, orr, rpcOk)

SpecFlags == Init /\ [][NextFlags]_vars

\* shutdown() on the clones of one Context
NextShutdown ==
    \/ \E k \in Clones : shutdown(k)
    \/ \E k \in Clones : shutdown_take(k)
    \/ \E k \in Clones, engineOk \in BOOLEAN : shutdown_done(k, engineOk)

SpecShutdown == Init /\ [][NextShutdown]_vars

\* create_table calls on two clones of one Context and table() lookups on
\* one of them, all on the table "t" of the default schema
NextRace ==
    \/ \E th \in Threads, info \in Infos, ine \in BOOLEAN, orr \in BOOLEAN :
         create_table_call(th, BareTable, info, ine, orr)
    \/ \E th \in Threads : CanCommit(th) /\ create_table_commit(th)
    \/ table_lookup(1, BareTable)

SpecRace == Init /\ [][NextRace]_vars

\* one DoPut(StatementUpdate) call, for every statement and incoming stream
\* (a call starts from nothing of the call before it, so a second call adds
\* no state)
NextPut ==
    \/ \E q \in PutQueries, input \in Streams, inputErr \in BOOLEAN,
          topicExists \in BOOLEAN :
         dpRes.status = "none"
         /\ do_put_statement_update(q, input, inputErr, topicExists)
    \/ do_put_pull
    \/ \E sendOk \in BOOLEAN : do_put_send(sendOk)
    \/ \E flushOk \in BOOLEAN : do_put_flush(flushOk)

SpecPut == Init /\ [][NextPut]_vars

\* the unsupported verbs of the Flight service, among calls that do change
\* the tracker, the prepared statements and the cluster
NextVerbs ==
    \/ CanInstall(BareTable) /\ create_table(BareTable, 1, FALSE, TRUE)
    \/ nextTicket <= MaxTickets /\ get_flight_info_statement("q_rows", TRUE)
    \/ \E q \in PrepQueries, planOk \in BOOLEAN, ipcOk \in BOOLEAN :
         do_action_create_prepared_statement(q, planOk, ipcOk)
    \/ \E v \in UnsupportedVerbs, arg \in StatementHandles : unimplemented(v, arg)

SpecVerbs == Init /\ [][NextVerbs]_vars

\* the metadata GetFlightInfo verbs, among GetFlightInfo(Statement) and DoGet
\* calls that do change the tracker
NextMeta ==
    \/ CanInstall(BareTable) /\ create_table(BareTable, 1, FALSE, TRUE)
    \/ nextTicket <= MaxTickets /\ get_flight_info_statement("q_rows", TRUE)
    \/ \E h \in Handles : do_get_statement(1, h)
    \/ take_ticket_stream(1, TRUE)
    \/ \E q \in MetaCommands, schemaOk \in BOOLEAN : get_flight_info_catalogs(q, schemaOk)
    \/ \E q \in MetaCommands, schemaOk \in BOOLEAN : get_flight_info_schemas(q, schemaOk)
    \/ \E q \in MetaCommands, schemaOk \in BOOLEAN : get_flight_info_tables(q, schemaOk)
    \/ \E q \in MetaCommands, schemaOk \in BOOLEAN : get_flight_info_sql_info(q, schemaOk)

SpecMeta == Init /\ [][NextMeta]_vars

\* DoGet(GetTables) and DoGet(GetDbSchemas) while other clones of the Context
\* create catalogs, their "public" schemas and the table "t" in them
NextSnapshot ==
    \/ \E c \in CatNames : writer_create_catalog(c)
    \/ \E c \in CatNames : writer_create_schema(c, "public")
    \/ \E c \in CatNames : writer_create_table("table", c, "public", "t", 1)
    \/ do_get_tables
    \/ do_get_tables_catalog
    \/ do_get_tables_schema
    \/ \E appendOk \in BOOLEAN : do_get_tables_table(appendOk)
    \/ do_get_schemas
    \/ do_get_schemas_catalog

SpecSnapshot == Init /\ [][NextSnapshot]_vars

\* DoGet(GetTables) calls with the creators running between the calls only
NextGetTables ==
    \/ gtPc = "idle" /\ \E c \in CatNames : writer_create_catalog(c)
    \/ gtPc = "idle" /\ \E c \in CatNames, s \in SchNames : writer_create_schema(c, s)
    \/ gtPc = "idle" /\ \E kind \in {"table", "topic", "view"}, c \in CatNames :
                          writer_create_table(kind, c, "public", "t",
                                              IF kind = "table" THEN 1 ELSE 2)
    \/ do_get_tables
    \/ do_get_tables_catalog
    \/ do_get_tables_schema
    \/ \E appendOk \in BOOLEAN : do_get_tables_table(appendOk)

SpecGetTables == Init /\ [][NextGetTables]_vars

\* DoGet(GetSqlInfo) among calls that change the cluster and the tracker
NextSqlInfo ==
    \/ CanInstall(BareTable) /\ create_table(BareTable, 1, FALSE, TRUE)
    \/ nextTicket <= MaxTickets /\ get_flight_info_statement("q_rows", TRUE)
    \/ \E codes \in CodeLists : do_get_sql_info(codes)

SpecSqlInfo == Init /\ [][NextSqlInfo]_vars

\* set_config / get_config of a client under both scopes, with the client
\* of another connection setting Configs too
NextConfig ==
    \/ \E cfg \in Configs, global \in BOOLEAN, rpcOk \in BOOLEAN :
         client_set_config(cfg, global, rpcOk)
    \/ \E cfg \in Configs, global \in BOOLEAN : peer_set_config(cfg, global)
    \/ \E global \in BOOLEAN, rpcOk \in BOOLEAN : client_get_config(global, rpcOk)

SpecConfig == Init /\ [][NextConfig]_vars

\* query() of a client over every FlightInfo a server may answer with
NextQuery ==
    \/ CanInstall(BareTable) /\ create_table(BareTable, 1, FALSE, TRUE)
    \/ nextTicket <= MaxTickets /\ get_flight_info_statement("q_rows", TRUE)
    \/ \E info \in FlightInfos, executeOk \in BOOLEAN : client_query(info, executeOk)

SpecQuery == Init /\ [][NextQuery]_vars

\* CreatePreparedStatement among the unsupported verbs
NextPrepared ==
    \/ \E q \in PrepQueries, planOk \in BOOLEAN, ipcOk \in BOOLEAN :
         do_action_create_prepared_statement(q, planOk, ipcOk)
    \/ \E v \in UnsupportedVerbs, arg \in StatementHandles : unimplemented(v, arg)

SpecPrepared == Init /\ [][NextPrepared]_vars

\* tensors of every shape, their axes inverted and swapped
NextTensor ==
    \/ \E r \in AxisSizes, c \in AxisSizes : tensor_new(<<r, c>>)
    \/ \E ax \in Axes : tensor_invert_axis(ax)
    \/ tensor_swap_axes

SpecTensor == Init /\ [][NextTensor]_vars

\* use_catalog on one clone of a client and use_schema on another clone of it,
\* each clone calling again and again
NextClones ==
    \/ \E c \in CatNames, rpcOk \in BOOLEAN : client_use_catalog(1, c, rpcOk)
    \/ \E s \in SchNames, rpcOk \in BOOLEAN : client_use_schema(2, s, rpcOk)
    \/ \E cl \in Clients, rpcOk \in BOOLEAN : set_config(cl, rpcOk)

SpecClones == Init /\ [][NextClones]_vars

(***************************************************************************)
(* Properties.                                                             *)
(***************************************************************************)

\* C1 (SpecTickets): for every ticket inserted by put_sql, over every
\* interleaving of DoGet handlers, exactly one take returns Some and every
\* other take returns None: a ticket still in the tracker has been taken by
\* nobody, a ticket that has left the tracker has been returned to exactly
\* one caller, and no ticket is ever returned twice.
C1_TakeExactlyOnce ==
    \A t \in Tickets :
        /\ takes[t] <= 1
        /\ tracker[t] # NoTask => t \in issued /\ takes[t] = 0
        /\ (t \in issued /\ tracker[t] = NoTask) => takes[t] = 1
        /\ t \notin issued => takes[t] = 0

\* two handlers asked for the same issued ticket: one got the task, the
\* other got not_found
C1_Witness ==
    \E a, b \in Threads :
        /\ a # b
        /\ dgRes[a].ticket \in issued
        /\ dgRes[b].ticket = dgRes[a].ticket
        /\ dgRes[a].status \in {"pending", "ok", "error"}
        /\ dgRes[b].status = "not_found"
        /\ takes[dgRes[a].ticket] = 1

\* C2 (SpecTickets): a DoGet (do_get_statement or do_get_fallback) with a
\* ticket that an earlier DoGet has consumed, or with a ticket that was
\* never issued, ends with not_found and streams no frame.
C2_StaleTicketNotFound ==
    \A th \in Threads :
        dgRes[th].stale =>
            /\ dgRes[th].status = "not_found"
            /\ dgRes[th].schema = 0
            /\ dgPc[th] = "idle"

\* one handler repeated a DoGet on a ticket it had consumed, and one asked
\* for a ticket that has not been issued
C2_Witness ==
    \E a, b \in Threads :
        /\ a # b
        /\ dgRes[a].stale /\ dgRes[a].ticket \in issued /\ takes[dgRes[a].ticket] = 1
        /\ dgRes[b].stale /\ dgRes[b].ticket \notin issued

\* C3 (SpecTickets): the schema a DoGet encodes its stream with is the
\* schema the FlightInfo of that ticket carried, whatever has happened to
\* the catalog between the two calls.
C3_SameSchema ==
    \A th \in Threads :
        (dgRes[th].status = "ok" /\ infoSchema[dgRes[th].ticket] # 0) =>
            dgRes[th].schema = infoSchema[dgRes[th].ticket]

\* a DoGet streamed a ticket whose table has been replaced, with another
\* schema, since the FlightInfo was returned
C3_Witness ==
    \E th \in Threads :
        /\ dgRes[th].status = "ok"
        /\ infoSchema[dgRes[th].ticket] # 0
        /\ table(QueryTable.catalog, QueryTable.schema, QueryTable.table).info
             # dgRes[th].schema

\* C4 (SpecFlightInfo): a successful GetFlightInfo(Statement) inserts exactly
\* one new (ticket -> task) entry in the tracker and returns a FlightInfo
\* with exactly one endpoint, whose ticket is a TicketStatementQuery carrying
\* that ticket; total_records is set iff the task has a row estimate, and
\* total_bytes iff it has a byte estimate.
C4_FlightInfoStatement ==
    [][ (lastInfo' # lastInfo /\ lastInfo'.status = "ok") =>
          /\ Len(lastInfo'.endpoint) = 1
          /\ lastInfo'.endpoint[1].ticket.cmd = "TicketStatementQuery"
          /\ LET t == lastInfo'.endpoint[1].ticket.statement_handle
             IN  /\ t \in Tickets
                 /\ tracker[t] = NoTask
                 /\ tracker'[t] # NoTask
                 /\ \A u \in Tickets \ {t} : tracker'[u] = tracker[u]
                 /\ (lastInfo'.total_records # -1) <=> (tracker'[t].num_rows # {})
                 /\ (lastInfo'.total_bytes # -1) <=> (tracker'[t].byte_size # {})
      ]_vars

\* a FlightInfo was returned for a statement with a row estimate and no
\* byte estimate, and its ticket is in the tracker
C4_Witness ==
    /\ lastInfo.status = "ok"
    /\ lastInfo.total_records # -1
    /\ lastInfo.total_bytes = -1
    /\ tracker[lastInfo.endpoint[1].ticket.statement_handle] # NoTask

\* C5 (SpecContext): Context::use_catalog(c) returns Ok and makes c the
\* default catalog if c exists in the cluster; otherwise it returns
\* CatalogNotFound(c) and leaves the whole Config as it was.
C5_UseCatalog ==
    ctxRes.op = "use_catalog" =>
        /\ ctxRes.prior # 0 =>
             ctxRes.status = "Ok" /\ default_catalog = ctxRes.cat
        /\ ctxRes.prior = 0 =>
             ctxRes.status = "CatalogNotFound" /\ config = ctxRes.before

\* use_catalog of a missing catalog failed after an earlier use_catalog had
\* moved the default away from the initial one
C5_Witness ==
    /\ ctxRes.op = "use_catalog"
    /\ ctxRes.status = "CatalogNotFound"
    /\ usedCatalog
    /\ default_catalog # DefaultConfig.default_catalog
    /\ default_catalog # ctxRes.cat

\* C6 (SpecContext): after a successful use_catalog, use_schema(s) looks s up
\* in the current default catalog: a schema missing from it gives
\* SchemaNotFound(s) and leaves default catalog and default schema as they
\* were; a schema present in it gives Ok and becomes the default schema.
C6_UseSchema ==
    (ctxRes.op = "use_schema" /\ usedCatalog) =>
        /\ ctxRes.cat = default_catalog
        /\ default_catalog = ctxRes.before.default_catalog
        /\ ctxRes.prior = 0 =>
             /\ ctxRes.status = "SchemaNotFound"
             /\ config = ctxRes.before
        /\ ctxRes.prior # 0 =>
             /\ ctxRes.status = "Ok"
             /\ default_schema = ctxRes.sch

\* after use_catalog("c"), use_schema failed for a schema that exists in
\* the initial default catalog but not in "c"
C6_Witness ==
    /\ ctxRes.op = "use_schema"
    /\ usedCatalog
    /\ ctxRes.status = "SchemaNotFound"
    /\ default_catalog = "c"
    /\ schema(DefaultConfig.default_catalog, ctxRes.sch) # 0
    /\ default_schema # ctxRes.sch

\* C7 (SpecSession): every call that sets the default catalog or the default
\* schema of a session (Context::use_catalog / use_schema, and the client's
\* use_catalog / use_schema through SetConfig) sets it to a catalog, or a
\* schema, that existed in the cluster when the call ran.
C7_DefaultsExisted ==
    lastSet.by # "none" => lastSet.existed

\* C8 (SpecShutdown), as stated: Engine::shutdown is invoked at most once
\* and every shutdown() call that has returned has returned Ok.
C8_AllCallsOk ==
    /\ teardowns <= 1
    /\ \A k \in Clones : sdPc[k] = "done" => sdRes[k] = "Ok"

\* C8 (SpecShutdown), amended: Engine::shutdown is invoked at most once; at
\* most one call (the one that ran the teardown) returns an error, and every
\* call that begins after another call has returned returns Ok.
C8_ShutdownIdempotent ==
    /\ teardowns <= 1
    /\ Cardinality({k \in Clones : sdPc[k] = "done" /\ sdRes[k] # "Ok"}) <= 1
    /\ \A k \in Clones : (sdPc[k] = "done" /\ sdLate[k]) => sdRes[k] = "Ok"

\* the first call returned the teardown's error and a later call, begun
\* after it, returned Ok without a second teardown
C8_Witness ==
    \E a, b \in Clones :
        /\ sdPc[a] = "done" /\ sdRes[a] = "Err"
        /\ sdPc[b] = "done" /\ sdLate[b] /\ sdRes[b] = "Ok"
        /\ teardowns = 1

\* C9 (SpecShutdown): the slot lock is not held while Engine::shutdown is in
\* progress, so no shutdown() caller waits for the lock during a teardown.
C9_TeardownOutsideLock ==
    \A k \in Clones :
        sdPc[k] = "teardown" =>
            /\ lockHolder = 0
            /\ \A j \in Clones : sdPc[j] = "lock" => ENABLED shutdown_take(j)

\* C10 (SpecDDL): a create_catalog / create_schema / create_table call with
\* if_not_exists = true (and or_replace = false) against a key that exists
\* returns the object installed in the registry, the one a lookup returned
\* before the call, and changes nothing in the registry.
C10_IfNotExistsReturnsExisting ==
    (/\ ctxRes.op \in {"create_catalog", "create_schema", "create_table"}
     /\ ctxRes.ine /\ ~ctxRes.orr
     /\ ctxRes.prior # 0) =>
        /\ ctxRes.status = "Ok"
        /\ ctxRes.obj = ctxRes.prior
        /\ ~ctxRes.changed
        /\ ctxRes.op = "create_catalog" => catalog(ctxRes.cat) = ctxRes.obj
        /\ ctxRes.op = "create_schema" => schema(ctxRes.cat, ctxRes.sch) = ctxRes.obj
        /\ ctxRes.op = "create_table" =>
             table(ctxRes.cat, ctxRes.sch, ctxRes.tbl).arc = ctxRes.obj

\* create_catalog("c", true) was called on the existing catalog "c" and
\* returned the object already installed
C10_Witness ==
    /\ ctxRes.op = "create_catalog"
    /\ ctxRes.cat = "c"
    /\ ctxRes.ine
    /\ ctxRes.prior # 0
    /\ ctxRes.obj = ctxRes.prior

\* two create_table calls of different threads have both returned, on the
\* same key, each in progress at some time during the other
ConcurrentPair(a, b) ==
    /\ a # b
    /\ ddlRes[a].status # "none" /\ ddlRes[b].status # "none"
    /\ ddlRes[a].rival /\ ddlRes[b].rival
    /\ ddlRes[a].res = ddlRes[b].res

\* C11 (SpecRace): create_table with or_replace = true is linearizable
\* against concurrent lookups and concurrent or_replace creates: once a table
\* has been installed under the key, every lookup returns a whole installed
\* object (the newest one installed when the lookup ran: the old object before
\* a replacement takes effect, the new one after), never absence; and after
\* two concurrent or_replace creates with info1 and info2 the key holds one
\* table, the object the later of the two installed, with info1 or info2.
C11_ReplaceLinearizable ==
    /\ \A th \in Threads :
         lkRes[th].known =>
            /\ lkRes[th].obj # NoTable
            /\ lkRes[th].obj \in installed
            /\ lkRes[th].obj.arc = lkRes[th].latest
    /\ \A a, b \in Threads :
         (/\ ConcurrentPair(a, b)
          /\ ddlPc[a] = "idle" /\ ddlPc[b] = "idle"
          /\ ddlRes[a].orr /\ ddlRes[b].orr
          /\ ddlRes[a].status = "Ok" /\ ddlRes[b].status = "Ok"
          /\ ddlRes[a].obj < ddlRes[b].obj) =>
            LET now == table(ddlRes[a].res.catalog, ddlRes[a].res.schema,
                             ddlRes[a].res.table)
            IN  /\ now = [arc |-> ddlRes[b].obj, kind |-> "table",
                          info |-> ddlRes[b].info]
                /\ now.info \in {ddlRes[a].info, ddlRes[b].info}
                /\ ddlRes[b].prior = ddlRes[a].obj

\* two concurrent or_replace creates with different infos have returned, and
\* a lookup made between the two replacements returned the object that the
\* second has since replaced
C11_Witness ==
    \E a, b \in Threads :
        /\ ConcurrentPair(a, b)
        /\ ddlPc[a] = "idle" /\ ddlPc[b] = "idle"
        /\ ddlRes[a].orr /\ ddlRes[b].orr
        /\ ddlRes[a].status = "Ok" /\ ddlRes[b].status = "Ok"
        /\ ddlRes[a].info # ddlRes[b].info
        /\ \E th \in Threads :
             lkRes[th].known /\ lkRes[th].obj.arc = ddlRes[a].obj
        /\ ddlRes[b].obj > ddlRes[a].obj

\* C12 (SpecParents): a create_catalog / create_schema / create_table /
\* create_topic / create_view call with neither if_not_exists nor or_replace
\* against a key that exists returns AlreadyExists and leaves the registry,
\* the installed object included, as it was before the call.
C12_AlreadyExistsNoChange ==
    (/\ ctxRes.op \in {"create_catalog", "create_schema", "create_table",
                       "create_topic", "create_view"}
     /\ ~ctxRes.ine /\ ~ctxRes.orr
     /\ ctxRes.prior # 0) =>
        /\ ctxRes.status = "AlreadyExists"
        /\ ctxRes.obj = 0
        /\ ~ctxRes.changed
        /\ ctxRes.op = "create_catalog" => catalog(ctxRes.cat) = ctxRes.prior
        /\ ctxRes.op = "create_schema" => schema(ctxRes.cat, ctxRes.sch) = ctxRes.prior
        /\ ctxRes.op \in {"create_table", "create_topic", "create_view"} =>
             table(ctxRes.cat, ctxRes.sch, ctxRes.tbl).arc = ctxRes.prior

\* create_table with neither flag was called on a key that holds a topic
C12_Witness ==
    /\ ctxRes.op = "create_table"
    /\ table(ctxRes.cat, ctxRes.sch, ctxRes.tbl).kind = "topic"
    /\ ~ctxRes.ine /\ ~ctxRes.orr
    /\ ctxRes.prior # 0
    /\ ctxRes.status = "AlreadyExists"

\* C13 (SpecRace): of two concurrent creates on the same absent key (neither
\* with both flags set, the parents existing), exactly one finds the key
\* absent when it runs on the registry; it installs its object and returns
\* Ok, and the other is treated as a create against that object under its own
\* flags: if_not_exists returns that object, or_replace installs another in
\* its place, neither flag returns AlreadyExists.  With neither flag on both,
\* exactly one call returns Ok and exactly one returns AlreadyExists.
C13_FirstAtLockWins ==
    \A a, b \in Threads :
        (/\ ConcurrentPair(a, b)
         /\ ddlRes[a].seen = 0 /\ ddlRes[b].seen = 0
         /\ ddlRes[a].parents /\ ddlRes[b].parents
         /\ ~(ddlRes[a].ine /\ ddlRes[a].orr)
         /\ ~(ddlRes[b].ine /\ ddlRes[b].orr)) =>
            /\ (ddlRes[a].prior = 0) # (ddlRes[b].prior = 0)
            /\ ddlRes[a].prior = 0 =>
                 /\ ddlRes[a].status = "Ok" /\ ddlRes[a].obj # 0
                 /\ ddlRes[b].prior = ddlRes[a].obj
                 /\ ddlRes[b].ine =>
                      ddlRes[b].status = "Ok" /\ ddlRes[b].obj = ddlRes[a].obj
                 /\ ddlRes[b].orr =>
                      ddlRes[b].status = "Ok" /\ ddlRes[b].obj > ddlRes[a].obj
                 /\ (~ddlRes[b].ine /\ ~ddlRes[b].orr) =>
                      ddlRes[b].status = "AlreadyExists" /\ ddlRes[b].obj = 0
            /\ (/\ ~ddlRes[a].ine /\ ~ddlRes[a].orr
                /\ ~ddlRes[b].ine /\ ~ddlRes[b].orr) =>
                 {ddlRes[a].status, ddlRes[b].status} = {"Ok", "AlreadyExists"}

\* two concurrent creates with neither flag on the absent key have returned,
\* one Ok and one AlreadyExists
C13_Witness ==
    \E a, b \in Threads :
        /\ ConcurrentPair(a, b)
        /\ ddlRes[a].seen = 0 /\ ddlRes[b].seen = 0
        /\ ddlRes[a].parents /\ ddlRes[b].parents
        /\ ~ddlRes[a].ine /\ ~ddlRes[a].orr /\ ~ddlRes[b].ine /\ ~ddlRes[b].orr
        /\ ddlRes[a].status = "Ok"
        /\ ddlRes[b].status = "AlreadyExists"

\* C14 (SpecParents): create_schema / create_table / create_topic /
\* create_view (not given both flags) returns CatalogNotFound when the parent
\* catalog is missing and SchemaNotFound when the parent schema is missing,
\* and in both cases creates nothing: the registry is unchanged and the
\* missing parent is still missing.
C14_MissingParent ==
    (/\ ctxRes.op \in {"create_schema", "create_table", "create_topic", "create_view"}
     /\ ~(ctxRes.ine /\ ctxRes.orr)) =>
        /\ ~ctxRes.hadCat =>
             /\ ctxRes.status = "CatalogNotFound"
             /\ ~ctxRes.changed
             /\ catalog(ctxRes.cat) = 0
             /\ schema(ctxRes.cat, ctxRes.sch) = 0
        /\ (ctxRes.hadCat /\ ~ctxRes.hadSch /\ ctxRes.op # "create_schema") =>
             /\ ctxRes.status = "SchemaNotFound"
             /\ ~ctxRes.changed
             /\ schema(ctxRes.cat, ctxRes.sch) = 0
             /\ table(ctxRes.cat, ctxRes.sch, ctxRes.tbl) = NoTable

\* create_topic failed for a missing schema of an existing catalog, after a
\* create_schema had failed for a missing catalog
C14_Witness ==
    /\ ctxRes.op = "create_topic"
    /\ ctxRes.hadCat /\ ~ctxRes.hadSch
    /\ ctxRes.status = "SchemaNotFound"
    /\ \E c \in CatNames : catalog(c) = 0

\* C15 (SpecFlags): a create_table / create_topic / create_view call with
\* both if_not_exists and or_replace, through the Context or through the
\* client's CreateTable request, fails with the configuration error and
\* creates, returns and replaces nothing.
C15_BothFlagsRejected ==
    /\ (/\ ctxRes.op \in {"create_table", "create_topic", "create_view"}
        /\ ctxRes.ine /\ ctxRes.orr) =>
          /\ ctxRes.status = "ConfigError"
          /\ ctxRes.obj = 0
          /\ ~ctxRes.changed
    /\ \A cl \in Clients :
         (clCall[cl].op = "create_table" /\ clCall[cl].ine /\ clCall[cl].orr) =>
            /\ clCall[cl].status = "ServerError"
            /\ clCall[cl].remote = 0
            /\ ~clCall[cl].changed

\* both a Context call and a client call with both flags were rejected, on a
\* key that holds a table
C15_Witness ==
    /\ ctxRes.op \in {"create_table", "create_topic", "create_view"}
    /\ ctxRes.ine /\ ctxRes.orr
    /\ ctxRes.prior # 0
    /\ clCall[1].op = "create_table" /\ clCall[1].ine /\ clCall[1].orr
    /\ clCall[1].status = "ServerError"

\* C16 (SpecPut): a DoPut(COPY this TO <topic>) that returns a count returns
\* the sum of num_rows over all batches of the incoming stream, and returns
\* it only after the stream has ended without error, every batch has been
\* sent to the publisher and flush has completed.
C16_CountIsSumOfRows ==
    dpRes.status = "ok" =>
        /\ is_copy_this(dpStmt.stmt)
        /\ ~dpStmt.inputErr
        /\ dpRes.count = sum_rows(dpStmt.input)
        /\ dpIn = <<>>
        /\ dpLog = dpStmt.input
        /\ dpFlushed = Len(dpStmt.input)

\* a DoPut streaming batches of 10, 20 and 30 rows returned 60
C16_Witness ==
    /\ dpRes.status = "ok"
    /\ Len(dpStmt.input) = 3
    /\ \A i \in 1 .. 3 : dpStmt.input[i].num_rows = 10 * i
    /\ dpRes.count = 60

\* C17 (SpecPut): within one DoPut call the batches the publisher has
\* accepted are, in order and each once, the first batches of the incoming
\* stream, and send of a batch has completed before the next batch is pulled:
\* at most one batch is pulled and not yet accepted.
C17_BatchesInOrder ==
    is_copy_this(dpStmt.stmt) =>
        /\ Len(dpLog) <= Len(dpStmt.input)
        /\ dpLog = SubSeq(dpStmt.input, 1, Len(dpLog))
        /\ dpPc = "send" =>
             /\ pulled = Len(dpLog) + 1
             /\ dpHeld = <<dpStmt.input[pulled]>>
        /\ dpPc \in {"pull", "flush"} =>
             /\ pulled = Len(dpLog)
             /\ dpHeld = <<>>
        /\ dpPc = "flush" => dpLog = dpStmt.input

\* the third batch has been pulled while the first two, of different sizes,
\* have been accepted by the publisher
C17_Witness ==
    /\ dpPc = "send"
    /\ Len(dpLog) = 2
    /\ dpLog[1].num_rows # dpLog[2].num_rows
    /\ dpHeld # <<>> /\ dpHeld[1].seq = 3

\* C18 (SpecPut): a DoPut(StatementUpdate) whose statement is not of the
\* form `COPY this TO <topic>` returns an error status, not a row count, and
\* no batch is read from the stream or published.
C18_OtherStatementsRejected ==
    (dpStmt.query # "" /\ ~is_copy_this(dpStmt.stmt)) =>
        /\ dpRes.status = "error"
        /\ pulled = 0
        /\ dpLog = <<>>

\* C19 (SpecVerbs): every call of an unsupported verb returns Unimplemented
\* and leaves the ticket tracker, the prepared-statement table and the
\* cluster as they were.
C19_UnimplementedNoEffect ==
    [][ lastVerb' # lastVerb =>
          /\ lastVerb'.verb \in UnsupportedVerbs
          /\ lastVerb'.status = "Unimplemented"
          /\ tracker' = tracker
          /\ nextTicket' = nextTicket
          /\ statements' = statements
          /\ clusterVars' = clusterVars
      ]_vars

\* close-prepared was called with the handle of a stored statement while a
\* ticket was pending, and the statement is still stored
C19_Witness ==
    /\ lastVerb.verb = "do_action_close_prepared_statement"
    /\ lastVerb.status = "Unimplemented"
    /\ statements[lastVerb.arg] # NoName
    /\ \E t \in Tickets : tracker[t] # NoTask

\* C20 (SpecMeta): GetFlightInfo for GetCatalogs, GetDbSchemas, GetTables and
\* GetSqlInfo returns exactly one endpoint whose ticket is the encoded
\* request command itself (it decodes to the command), and inserts nothing
\* into the ticket tracker.
C20_MetadataTicketIsCommand ==
    [][ lastMeta' # lastMeta =>
          /\ tracker' = tracker
          /\ nextTicket' = nextTicket
          /\ lastMeta'.status = "ok" =>
               /\ lastMeta'.request.cmd \in
                    {"CommandGetCatalogs", "CommandGetDbSchemas",
                     "CommandGetTables", "CommandGetSqlInfo"}
               /\ Len(lastMeta'.endpoint) = 1
               /\ lastMeta'.endpoint[1].ticket = encode_any(lastMeta'.request)
               /\ decode_any(lastMeta'.endpoint[1].ticket) = lastMeta'.request
      ]_vars

\* GetFlightInfo(GetSqlInfo) with two info codes was answered while a
\* statement ticket was pending in the tracker
C20_Witness ==
    /\ lastMeta.status = "ok"
    /\ lastMeta.request.cmd = "CommandGetSqlInfo"
    /\ Len(lastMeta.request.fields) = 2
    /\ \E t \in Tickets : tracker[t] # NoTask

\* the (catalog, schema, table) triples among a set of cluster entries
triples_of(entries) == {e \in entries : Len(e) = 3}

\* the (catalog, schema) pairs among a set of cluster entries
pairs_of(entries) == {e \in entries : Len(e) = 2}

\* the keys of the rows of a metadata response
row_keys(rows) ==
    {IF gtRows.kind = "tables"
     THEN <<rows[i].catalog, rows[i].schema, rows[i].table>>
     ELSE <<rows[i].catalog, rows[i].schema>> : i \in 1 .. Len(rows)}

\* the cluster entries after the first k creations of the call
entries_at(k) == gtStart \cup {treeLog[i] : i \in 1 .. k}

\* C21 (SpecSnapshot): the rows of one DoGet(GetTables) -- likewise of one
\* DoGet(GetDbSchemas) -- are the triples (pairs) the cluster held at one
\* instant during the call, whatever creators ran meanwhile.
C21_ConsistentSnapshot ==
    (gtPc = "idle" /\ gtRows.status = "ok") =>
        \E k \in 0 .. Len(treeLog) :
            row_keys(gtRows.rows) =
                IF gtRows.kind = "tables" THEN triples_of(entries_at(k))
                ELSE pairs_of(entries_at(k))

C24_ScopeFrame ==
    [][/\ lastSent'["Connection"] # lastSent["Connection"] =>
            /\ connConfig' = lastSent'["Connection"].cfg
            /\ clusterConfig' = clusterConfig
            /\ peerConfig' = peerConfig
       /\ lastSent'["Cluster"] # lastSent["Cluster"] =>
            /\ clusterConfig' = lastSent'["Cluster"].cfg
            /\ connConfig' = connConfig
            /\ peerConfig' = peerConfig]_vars

\* the client has set both scopes: its session, the cluster defaults and the
\* other session hold three different Configs
C24_Witness ==
    /\ lastSent["Connection"].by = "client"
    /\ lastSent["Cluster"].by = "client"
    /\ connConfig = lastSent["Connection"].cfg
    /\ clusterConfig = lastSent["Cluster"].cfg
    /\ connConfig # clusterConfig
    /\ peerConfig = DefaultConfig
    /\ connConfig # DefaultConfig /\ clusterConfig # DefaultConfig

C26_QueryTicketCases ==
    LET q == lastQuery
    IN  (q.status \notin {"none", "ServerError"}) =>
          /\ Len(q.info) = 0 => q.status = "MissingEndpoint"
          /\ (Len(q.info) = 1 /\ ~q.info[1].ticket) => q.status = "MissingTicket"
          /\ (Len(q.info) = 1 /\ q.info[1].any
              /\ q.info[1].cmd \notin {NoName, "TicketStatementQuery"})
                => q.status = "DecodeError"
          /\ q.lazy => /\ Len(q.info) = 1
                       /\ q.info[1].ticket
                       /\ q.info[1].cmd = "TicketStatementQuery"
          /\ (Len(q.info) = 1 /\ q.info[1].cmd = "TicketStatementQuery"
              /\ q.info[1].plan) => q.lazy
          /\ q.status # "Ok" => ~q.lazy

\* the ticket of the one endpoint held a metadata command
C26_Witness ==
    /\ lastQuery.status = "DecodeError"
    /\ Len(lastQuery.info) = 1
    /\ lastQuery.info[1].cmd = "CommandGetCatalogs"
    /\ ~lastQuery.lazy

\* C27 (SpecPrepared): a CreatePreparedStatement that succeeds adds one
\* entry, from the handle it returns to the statement it planned; one that
\* fails leaves the table as it was; no verb removes or changes an entry.
C27_StatementsOnlyAdded ==
    [][/\ \A h \in StatementHandles :
            statements[h] # NoName => statements'[h] = statements[h]
       /\ statements' # statements =>
            (lastPrep' # lastPrep /\ lastPrep'.status = "ok")
       /\ lastPrep' # lastPrep =>
            IF lastPrep'.status = "ok"
            THEN /\ statements[lastPrep'.handle] = NoName
                 /\ statements' = [statements EXCEPT
                                      ![lastPrep'.handle] = lastPrep'.query]
            ELSE statements' = statements]_vars

\* a statement was prepared and close-prepared was called on its handle
C27_Witness ==
    /\ lastPrep.status = "ok"
    /\ statements[lastPrep.handle] = lastPrep.query
    /\ lastVerb.verb = "do_action_close_prepared_statement"
    /\ lastVerb.arg = lastPrep.handle

\* a tensor as the rows of its elements
rows_of(t) ==
    [i \in 1 .. t.shape[1] |->
        [j \in 1 .. t.shape[2] |-> elem(t, [a \in Axes |-> IF a = 1 THEN i - 1 ELSE j - 1])]]

\* C28 (SpecTensor): invert_axis(ax) returns a tensor of the same shape whose
\* element at index i along ax is the element of the original at index
\* size - 1 - i, the other index unchanged; the rows 1 2 3 / 4 5 6 become
\* 4 5 6 / 1 2 3 along the first axis and 3 2 1 / 6 5 4 along the second; an
\* axis of size 0 leaves the data offset unchanged.
C28_InvertAxis ==
    tnAx \in Axes =>
        /\ tn.shape = tnPrev.shape
        /\ \A idx \in indices(tn) :
              elem(tn, idx) =
                 elem(tnPrev, [idx EXCEPT ![tnAx] = tnPrev.shape[tnAx] - 1 - idx[tnAx]])
        /\ tnPrev.shape[tnAx] = 0 => tn.offset = tnPrev.offset
        /\ (tnPrev = tensor_of(<<2, 3>>) /\ tnAx = 1) =>
              rows_of(tn) = << <<4, 5, 6>>, <<1, 2, 3>> >>
        /\ (tnPrev = tensor_of(<<2, 3>>) /\ tnAx = 2) =>
              rows_of(tn) = << <<3, 2, 1>>, <<6, 5, 4>> >>

\* the rows 1 2 3 / 4 5 6 inverted along their first axis
C28_Witness ==
    /\ tnAx = 1
    /\ rows_of(tnPrev) = << <<1, 2, 3>>, <<4, 5, 6>> >>
    /\ rows_of(tn) = << <<4, 5, 6>>, <<1, 2, 3>> >>

\* C29 (SpecTickets): a DoGet has consumed its ticket before the stream of
\* the task is created: when task.stream() fails the call returns the
\* error, the ticket is gone from the tracker, and any other DoGet of the
\* ticket returns not_found.
C29_TicketConsumedBeforeStream ==
    \A th \in Threads :
        dgRes[th].status \in {"pending", "error"} =>
            /\ tracker[dgRes[th].ticket] = NoTask
            /\ \A o \in Threads \ {th} :
                  (dgRes[o].ticket = dgRes[th].ticket /\ dgRes[o].status # "none")
                     => dgRes[o].status = "not_found"

\* the stream of a ticket failed on one thread and the retry on the other
\* thread found no ticket
C29_Witness ==
    \E th \in Threads, o \in Threads :
        /\ dgRes[th].status = "error"
        /\ dgRes[th].ticket \in issued
        /\ dgRes[o].ticket = dgRes[th].ticket
        /\ dgRes[o].status = "not_found" /\ dgRes[o].stale

\* C30 (SpecShutdown): when Engine::shutdown fails in the first shutdown(),
\* that call returns the error, the slot stays empty and every other call
\* that returns returns Ok, no teardown being attempted again.
C30_FailedShutdownLeavesSlotEmpty ==
    \A k \in Clones :
        sdRes[k] = "Err" =>
            /\ ~slot
            /\ teardowns = 1
            /\ \A j \in Clones \ {k} :
                  /\ sdPc[j] # "teardown"
                  /\ sdPc[j] = "done" => sdRes[j] = "Ok"

\* the teardown failed and two later calls returned Ok on the empty slot
C30_Witness ==
    \E k, i, j \in Clones :
        /\ i # j
        /\ sdRes[k] = "Err"
        /\ sdLate[i] /\ sdRes[i] = "Ok"
        /\ sdLate[j] /\ sdRes[j] = "Ok"
        /\ ~slot /\ teardowns = 1

\* C31 (SpecContext): a successful Context::use_catalog(c) changes only
\* default_catalog -- default_schema and the other Config fields keep their
\* values -- and succeeds whenever c exists, whether or not the default
\* schema exists inside c.
C31_UseCatalogFrame ==
    ctxRes.op = "use_catalog" =>
        /\ ctxRes.prior # 0 => ctxRes.status = "Ok"
        /\ ctxRes.status = "Ok" =>
              config = [ctxRes.before EXCEPT !.default_catalog = ctxRes.cat]

\* use_catalog succeeded for a catalog that does not hold the default schema,
\* a schema set by an earlier use_schema
C31_Witness ==
    /\ ctxRes.op = "use_catalog" /\ ctxRes.status = "Ok"
    /\ default_catalog # ctxRes.before.default_catalog
    /\ default_schema # DefaultConfig.default_schema
    /\ schema(default_catalog, default_schema) = 0

\* C32 (SpecClones): use_catalog on one clone of a client and use_schema on
\* another are atomic updates of the connection's Config: once the last
\* use_catalog(c) has returned Ok the default catalog is c, and once the
\* last use_schema(s) has returned Ok the default schema is s, however the
\* two calls overlapped.
C32_NoLostUpdate ==
    (/\ clPc[1] = "idle" /\ clCall[1].op = "use_catalog" /\ clCall[1].status = "Ok"
     /\ clPc[2] = "idle" /\ clCall[2].op = "use_schema" /\ clCall[2].status = "Ok")
    => /\ connConfig.default_catalog = clCall[1].arg
       /\ connConfig.default_schema = clCall[2].arg

\* C33 (SpecPut): in DoPut(COPY this TO <topic>) the first error of the
\* incoming stream or of send ends the call with that error and no count:
\* nothing more is pulled, sent or flushed, then or later, and the batches
\* the publisher had accepted stay accepted.
C33_FirstErrorEndsCall ==
    [][/\ (/\ dpPc \in {"pull", "send"}
           /\ dpRes.status = "pending"
           /\ dpRes'.status = "error")
          => /\ dpPc' = "idle"
             /\ dpRes'.count = -1
             /\ dpIn' = dpIn
             /\ dpLog' = dpLog
             /\ dpFlushed' = 0
       /\ dpRes.status = "error" => putVars' = putVars]_vars

\* send of the second batch failed: the first batch stays accepted and the
\* third was never pulled
C33_Witness ==
    /\ dpRes.status = "error" /\ dpPc = "idle"
    /\ Len(dpStmt.input) = 3
    /\ pulled = 2
    /\ dpLog = <<dpStmt.input[1]>>
    /\ dpFlushed = 0

====
